---- MODULE Spec2Model ----
(***************************************************************************)
(* Verification model of the activity tracker (secondBrainSrc).            *)
(*                                                                         *)
(*  Part I   learner: the capture thread of Keylogger::new (producer), the *)
(*           mutex-guarded VecDeque event_buffer, Keylogger::poll and the  *)
(*           poll loop of learner/src/main.rs (consumer).                  *)
(*  Part II  recall: QueryEngine::process_query and the pure functions it  *)
(*           uses (query_engine.rs).                                       *)
(*  Part III recall: the TCP service, handle_client (recall/src/main.rs),  *)
(*           and its client (ui/src/main.rs).                              *)
(*  Part IV  thinker: the loop of Thinker::start (src/thinker/mod.rs).     *)
(*                                                                         *)
(* Specifications: Spec (capture thread and poll loop on key presses),     *)
(* SpecCapture (the capture thread on the full input stream), SpecProbe    *)
(* (the capture thread in windows of many kinds), SpecSession (the learner *)
(* with the system clock), SpecQuery (process_query against stores that    *)
(* are being written), SpecParse (process_query on fresh stores over many  *)
(* queries and clock readings), SpecTwice (one query asked twice against   *)
(* fixed stores), SpecServe (the TCP service and its connections),         *)
(* SpecStartup (the learner while other components construct their store   *)
(* client), SpecDrain (the learner under fair scheduling, with a producer  *)
(* that stops), SpecThink (the thinker and the system clock).              *)
(*                                                                         *)
(* Strings are TLA+ strings, taken apart with Len, SubSeq and \o; a        *)
(* character is a string of length 1.  Option<T> is a sequence of length   *)
(* 0 (None) or 1 (Some).                                                   *)
(***************************************************************************)
EXTENDS Integers, Sequences, FiniteSets, TLC

VARIABLES
    event_buffer,   \* VecDeque<UserEvent> behind the mutex, head first
    lock,           \* owner of the mutex: "free", "producer" or "consumer"
    ppc,            \* position of the listen callback (capture thread)
    pevent,         \* Option<UserEvent>: the event the callback has built
    cpc,            \* position of the poll loop in main
    key_event,      \* Option<UserEvent>: what keylogger.poll() returned
    total_events,   \* the AtomicUsize counter of main
    db_events,      \* rows of user_events written by store_event, in order
    pushed,         \* history: every event given to push_back, in order
    polled,         \* history: every event poll returned as Some, in order
    evicted,        \* history: every event dropped by the overflow pop_front
    sincePoll,      \* history: push_back calls since the last poll's pop_front
    shift_pressed,  \* the capture thread's modifier state
    ctrl_pressed,
    alt_pressed,
    meta_pressed,
    held,           \* environment: the keys that are physically down
    rdev_event,     \* the input event last delivered to the listen callback
    active_window,  \* what the last active_win::get_active_window() returned
    stderr,         \* the kinds of error lines written by eprintln!
    clock,          \* environment: the system clock that Utc::now() reads
    stored,         \* history: the store_event calls of the poll loop, in order
    user_summaries, \* rows of table user_summaries (a set of rows)
    user_events,    \* rows of table user_events as the recall service reads them
    event_db,       \* QueryEngine::event_db is Some (TRUE) or None (FALSE)
    q_pc,           \* position of one process_query call
    q_query,        \* its argument
    q_now,          \* the reading of Utc::now() / Local::now() in parse_timeframe
    q_tz,           \* the offset of the Local timezone, in minutes
    q_timeframe,    \* let timeframe
    q_app_filter,   \* let app_filter: Option<String>
    q_calls,        \* history: the store calls of this process_query, in order
    q_result,       \* what process_query returned (Ok(QueryResult) or Err)
    q_first,        \* history: Option of what the first of two equal calls returned
    connections,    \* per TCP connection: the client, the socket, handle_client
    llm_client,     \* owner of the Mutex around the LLM client: 0 (free) or a task
    t_pc,           \* position of the loop of Thinker::start
    last_processed_time,    \* let mut last_processed_time
    current_time,   \* let current_time of the iteration
    t_windows       \* history: the process_time_window calls, in order

modifier_vars == <<shift_pressed, ctrl_pressed, alt_pressed, meta_pressed>>

input_vars == <<held, rdev_event, active_window>>

capture_vars == <<modifier_vars, input_vars>>

session_vars == <<stderr, clock, stored>>

learner_vars == <<event_buffer, lock, ppc, pevent, cpc, key_event,
                  total_events, db_events, pushed, polled, evicted, sincePoll,
                  capture_vars, session_vars>>

query_vars == <<user_summaries, user_events, event_db, q_pc, q_query,
                q_now, q_tz, q_timeframe, q_app_filter, q_calls, q_result, q_first>>

serve_vars == <<connections, llm_client>>

thinker_vars == <<t_pc, last_processed_time, current_time, t_windows>>

vars == <<learner_vars, query_vars, serve_vars, thinker_vars>>

\* ------------------------------------------------------------------ bounds

\* Capacity of the buffer.  The source sets 1000 (keylogger.rs:10); the
\* model checks the same code with a small capacity.
MAX_BUFFER_SIZE == 3

\* Key presses the capture thread receives in one run.
MaxPushes == 5

\* Key presses of non-modifier keys in a run of the capture thread alone.
MaxKeystrokes == 1

\* The readings of the system clock are 0..MaxClock.
MaxClock == 2

\* Key presses of a run in which the system clock is watched.
MaxStamped == 2

\* Key presses of a run in which the draining of the buffer is watched.
MaxDrained == 4

\* The processing interval of the thinker, in clock readings.
ProcessingInterval == 1

\* Calls of process_time_window in one run.
MaxWindows == 4

\* Connections the recall service accepts in one run.
MaxConns == 2

\* Size of the read buffer of handle_client.  The source sets 4096
\* (main.rs:127); the model checks the same code with a small buffer.
READ_BUFFER_SIZE == 12

\* --------------------------------------------------------- Option<T>, data

None == <<>>

Some(x) == <<x>>

\* Non-modifier keys delivered by rdev, in their Debug form (format!("{:?}")).
Keys == {"KeyA"}

\* The keys the callback treats as modifiers, with the flag each one drives.
ShiftKeys == {"ShiftLeft", "ShiftRight"}

ControlKeys == {"ControlLeft", "ControlRight"}

AltKeys == {"Alt", "AltGr"}

MetaKeys == {"MetaLeft", "MetaRight"}

ModifierKeys == ShiftKeys \cup ControlKeys \cup AltKeys \cup MetaKeys

\* The modifier keys and other event types of the capture runs: both Shift
\* keys, and one key for each of the other modifiers.
CaptureModifierKeys == {"ShiftLeft", "ShiftRight", "ControlLeft", "AltGr", "MetaRight"}

\* Input events that are neither KeyPress nor KeyRelease.
CaptureOtherEventTypes == {"MouseMove"}

\* An rdev::Event as the callback sees it; key is "" for events without one.
RdevEvent(event_type, key) == [event_type |-> event_type, key |-> key]

\* Faulty variant of modifiers_of: the list is built from Meta to Shift.
modifiers_of_Reversed(shift, ctrl, alt, meta) ==
    (IF meta THEN <<"Meta">> ELSE <<>>)
        \o (IF alt THEN <<"Alt">> ELSE <<>>)
        \o (IF ctrl THEN <<"Ctrl">> ELSE <<>>)
        \o (IF shift THEN <<"Shift">> ELSE <<>>)

\* "Build modifiers list": Shift, Ctrl, Alt, Meta, each if its flag is set.
modifiers_of(shift, ctrl, alt, meta) ==
    (IF shift THEN <<"Shift">> ELSE <<>>)
        \o (IF ctrl THEN <<"Ctrl">> ELSE <<>>)
        \o (IF alt THEN <<"Alt">> ELSE <<>>)
        \o (IF meta THEN <<"Meta">> ELSE <<>>)

\* ----------------------------------------------------------------- strings

UpperCaseLetters == "ABCDEFGHIJKLMNOPQRSTUVWXYZ"

LowerCaseLetters == "abcdefghijklmnopqrstuvwxyz"

Digits == "0123456789"

CharAt(s, i) == SubSeq(s, i, i)

CharIn(c, alphabet) == \E i \in 1..Len(alphabet) : CharAt(alphabet, i) = c

\* char::to_lowercase on the characters the model uses (ASCII).
LowerChar(c) ==
    IF CharIn(c, UpperCaseLetters)
    THEN CharAt(LowerCaseLetters,
                CHOOSE i \in 1..Len(UpperCaseLetters) : CharAt(UpperCaseLetters, i) = c)
    ELSE c

\* str::to_lowercase
RECURSIVE to_lowercase(_)
to_lowercase(s) ==
    IF Len(s) = 0 THEN ""
    ELSE LowerChar(CharAt(s, 1)) \o to_lowercase(SubSeq(s, 2, Len(s)))

\* str::contains(pattern)
contains(s, pattern) ==
    \E i \in 1..(Len(s) - Len(pattern) + 1) :
        SubSeq(s, i, i + Len(pattern) - 1) = pattern

\* str::starts_with(prefix)
starts_with(s, prefix) ==
    Len(s) >= Len(prefix) /\ SubSeq(s, 1, Len(prefix)) = prefix

\* The byte offsets (from 0) at which the pattern occurs in s.
Occurrences(s, pattern) ==
    {i \in 0..(Len(s) - Len(pattern)) : SubSeq(s, i + 1, i + Len(pattern)) = pattern}

\* str::find(pattern): Option of the first offset
find(s, pattern) ==
    LET at == Occurrences(s, pattern)
    IN  IF at = {} THEN None ELSE Some(CHOOSE i \in at : \A j \in at : i <= j)

\* str::rfind(pattern): Option of the last offset
rfind(s, pattern) ==
    LET at == Occurrences(s, pattern)
    IN  IF at = {} THEN None ELSE Some(CHOOSE i \in at : \A j \in at : i >= j)

\* str::split_at(mid): the two halves
split_at(s, mid) == <<SubSeq(s, 1, mid), SubSeq(s, mid + 1, Len(s))>>

\* str::trim on the whitespace the model uses (the space).
RECURSIVE trim(_)
trim(s) ==
    IF Len(s) = 0 THEN ""
    ELSE IF SubSeq(s, 1, 1) = " " THEN trim(SubSeq(s, 2, Len(s)))
    ELSE IF SubSeq(s, Len(s), Len(s)) = " " THEN trim(SubSeq(s, 1, Len(s) - 1))
    ELSE s

\* -------------------------------------------------------- active window

\* is_likely_url (keylogger.rs:33)
is_likely_url(text0) ==
    LET text == trim(text0)
    IN  \/ starts_with(text, "http")
        \/ starts_with(text, "www.")
        \/ contains(text, ".com")
        \/ contains(text, ".org")
        \/ contains(text, ".net")
        \/ contains(text, ".io")
        \/ contains(text, ".app")
        \/ contains(text, ".dev")

\* let is_browser: by the lower-cased app name, or by the window title.
is_browser(window) ==
    LET normalized_app_name == to_lowercase(window.app_name)
    IN  \/ contains(normalized_app_name, "zen")
        \/ contains(window.title, "mozilla")
        \/ contains(window.title, "firefox")
        \/ contains(normalized_app_name, "chrome")
        \/ contains(normalized_app_name, "firefox")
        \/ contains(normalized_app_name, "safari")
        \/ contains(normalized_app_name, "edge")
        \/ contains(normalized_app_name, "opera")
        \/ contains(normalized_app_name, "brave")

\* let browser_url: " - " first, else the last " | ", else the whole title.
browser_url(window) ==
    IF ~is_browser(window) THEN None
    ELSE IF find(window.title, " - ") # None
    THEN LET potential_url == trim(split_at(window.title, find(window.title, " - ")[1])[1])
         IN  IF is_likely_url(potential_url) THEN Some(potential_url) ELSE None
    ELSE IF rfind(window.title, " | ") # None
    THEN LET potential_url ==
                trim(split_at(window.title, rfind(window.title, " | ")[1] + 3)[2])
         IN  IF is_likely_url(potential_url) THEN Some(potential_url) ELSE None
    ELSE IF is_likely_url(window.title) THEN Some(window.title)
    ELSE None

\* let display_app_name
display_app_name(window) ==
    IF is_browser(window) /\ ~contains(to_lowercase(window.app_name), "zen")
    THEN IF contains(window.title, "monkeytype")
         THEN "Zen Browser"
         ELSE window.app_name \o " Browser"
    ELSE window.app_name

\* What active_win::get_active_window() can return: a window, or an error.
Windows == {[title |-> "notes.txt", app_name |-> "Code"]}

ProbeResults == {[ok |-> TRUE, window |-> w] : w \in Windows}
                    \cup {[ok |-> FALSE, window |-> [title |-> "", app_name |-> ""]]}

\* Windows of the probe runs: browsers and other applications, titles with
\* and without " - ", " | ", a leading scheme, a domain, "monkeytype".
ProbeWindows ==
    { [title |-> "https://docs.rs/serde Serde docs", app_name |-> "Google Chrome"],
      [title |-> "docs.rs - Google Chrome", app_name |-> "Google Chrome"],
      [title |-> "github.com - Mozilla Firefox", app_name |-> "firefox"],
      [title |-> "Inbox | mail.example.org", app_name |-> "Safari"],
      [title |-> "example.com", app_name |-> "Brave"],
      [title |-> "https://a.io/x y - Page", app_name |-> "Opera"],
      [title |-> "Page - www.site.net", app_name |-> "Microsoft Edge"],
      [title |-> "New Tab", app_name |-> "Google Chrome"],
      [title |-> "Zen start page", app_name |-> "zen"],
      [title |-> "readme.io - notes", app_name |-> "Code"],
      [title |-> "monkeytype notes", app_name |-> "Code"],
      [title |-> "how to use firefox.com - notes", app_name |-> "Code"] }

ProbeWindowResults == {[ok |-> TRUE, window |-> w] : w \in ProbeWindows}

AllProbeResults == ProbeResults \cup ProbeWindowResults

\* Faulty variant of AppContextOf: a failed probe gives empty strings.
AppContextOf_NoSentinel(probe) ==
    IF probe.ok
    THEN [app_name |-> display_app_name(probe.window),
          window_title |-> probe.window.title,
          url |-> browser_url(probe.window)]
    ELSE [app_name |-> "", window_title |-> "", url |-> None]

\* let app_context = match active_win::get_active_window(): the monkeytype
\* special case, the normal processing, and the sentinel of a failed probe.
AppContextOf(probe) ==
    IF probe.ok
    THEN IF contains(probe.window.title, "monkeytype")
         THEN [app_name |-> "Zen Browser",
               window_title |-> probe.window.title,
               url |-> IF contains(probe.window.title, "https://")
                       THEN Some(probe.window.title)
                       ELSE Some("https://monkeytype.com")]
         ELSE [app_name |-> display_app_name(probe.window),
               window_title |-> probe.window.title,
               url |-> browser_url(probe.window)]
    ELSE [app_name |-> "unknown", window_title |-> "unknown", url |-> None]

\* AppContextOf on the probe results of the model, computed once.
app_context_of == [probe \in AllProbeResults |-> AppContextOf(probe)]

\* The UserEvent built by the callback.  seq numbers the key presses of the
\* run; it stands for the event's identity (two presses of the same key in
\* the same window are two events).
UserEvent(timestamp, seq, key, modifiers, probe) ==
    [timestamp |-> timestamp,
     seq |-> seq,
     event |-> "keystroke",
     key |-> key,
     modifiers |-> modifiers,
     app_context |-> app_context_of[probe]]

\* ------------------------------------------------------------ VecDeque ops

\* Faulty variant of push_back: inserts at the head (push_front).
push_back_AtHead(q, e) == <<e>> \o q

push_back(q, e) == Append(q, e)

\* Faulty variant of pop_front: removes at the tail (pop_back).
pop_front_AtTail(q) ==
    IF q = <<>>
    THEN [queue |-> <<>>, item |-> None]
    ELSE [queue |-> SubSeq(q, 1, Len(q) - 1), item |-> Some(q[Len(q)])]

\* Faulty variant of pop_front: returns the head and leaves it queued (front()).
pop_front_NoRemove(q) ==
    IF q = <<>>
    THEN [queue |-> <<>>, item |-> None]
    ELSE [queue |-> q, item |-> Some(Head(q))]

\* VecDeque::pop_front: the remaining queue and the Option removed.
pop_front(q) ==
    IF q = <<>>
    THEN [queue |-> <<>>, item |-> None]
    ELSE [queue |-> Tail(q), item |-> Some(Head(q))]

\* Faulty variant of BufferOverfull: the comparison is off by one.
BufferOverfull_OffByOne(q) == Len(q) > MAX_BUFFER_SIZE + 1

\* "If buffer is full, remove oldest event" (keylogger.rs:192).
BufferOverfull(q) == Len(q) > MAX_BUFFER_SIZE

\* -------------------------------------------------------------- Init

LearnerInit ==
    /\ event_buffer = <<>>
    /\ lock = "free"
    /\ ppc = "listen"
    /\ pevent = None
    /\ cpc = "select"
    /\ key_event = None
    /\ total_events = 0
    /\ db_events = <<>>
    /\ pushed = <<>>
    /\ polled = <<>>
    /\ evicted = <<>>
    /\ sincePoll = 0
    /\ shift_pressed = FALSE
    /\ ctrl_pressed = FALSE
    /\ alt_pressed = FALSE
    /\ meta_pressed = FALSE
    /\ held = {}
    /\ rdev_event = None
    /\ active_window = None
    /\ stderr = {}
    /\ clock = 0
    /\ stored = <<>>

\* ------------------------------------------------- producer: listen callback

\* KeyPress of a non-modifier key: probe the active window, build the event.
\* All of this happens before buffer_clone.lock().
KeyPress(key, probe) ==
    /\ ppc = "listen"
    /\ Len(pushed) < MaxPushes
    /\ held' = held \cup {key}
    /\ rdev_event' = Some(RdevEvent("KeyPress", key))
    /\ active_window' = Some(probe)
    /\ pevent' = Some(UserEvent(clock, Len(pushed) + 1, key,
                                modifiers_of(shift_pressed, ctrl_pressed,
                                             alt_pressed, meta_pressed),
                                probe))
    /\ ppc' = "lock"
    /\ UNCHANGED <<event_buffer, lock, cpc, key_event, total_events,
                   db_events, pushed, polled, evicted, sincePoll>>
    /\ UNCHANGED <<modifier_vars, session_vars, query_vars, serve_vars, thinker_vars>>

\* KeyPress of a modifier key: its flag is set, nothing else happens.
ModifierPress(key) ==
    /\ ppc = "listen"
    /\ held' = held \cup {key}
    /\ rdev_event' = Some(RdevEvent("KeyPress", key))
    /\ shift_pressed' = IF key \in ShiftKeys THEN TRUE ELSE shift_pressed
    /\ ctrl_pressed' = IF key \in ControlKeys THEN TRUE ELSE ctrl_pressed
    /\ alt_pressed' = IF key \in AltKeys THEN TRUE ELSE alt_pressed
    /\ meta_pressed' = IF key \in MetaKeys THEN TRUE ELSE meta_pressed
    /\ UNCHANGED <<event_buffer, lock, ppc, pevent, cpc, key_event,
                   total_events, db_events, pushed, polled, evicted, sincePoll,
                   active_window>>
    /\ UNCHANGED <<session_vars, query_vars, serve_vars, thinker_vars>>

\* Faulty variant of KeyRelease: the release of any key clears the Shift flag.
KeyRelease_ClearsShift(key) ==
    /\ ppc = "listen"
    /\ key \in held
    /\ held' = held \ {key}
    /\ rdev_event' = Some(RdevEvent("KeyRelease", key))
    /\ shift_pressed' = FALSE
    /\ ctrl_pressed' = IF key \in ControlKeys THEN FALSE ELSE ctrl_pressed
    /\ alt_pressed' = IF key \in AltKeys THEN FALSE ELSE alt_pressed
    /\ meta_pressed' = IF key \in MetaKeys THEN FALSE ELSE meta_pressed
    /\ UNCHANGED <<event_buffer, lock, ppc, pevent, cpc, key_event,
                   total_events, db_events, pushed, polled, evicted, sincePoll,
                   active_window>>
    /\ UNCHANGED <<session_vars, query_vars, serve_vars, thinker_vars>>

\* KeyRelease of a key that is down: a modifier key clears its flag, any
\* other key changes nothing (`_ => {}`).
KeyRelease(key) ==
    /\ ppc = "listen"
    /\ key \in held
    /\ held' = held \ {key}
    /\ rdev_event' = Some(RdevEvent("KeyRelease", key))
    /\ shift_pressed' = IF key \in ShiftKeys THEN FALSE ELSE shift_pressed
    /\ ctrl_pressed' = IF key \in ControlKeys THEN FALSE ELSE ctrl_pressed
    /\ alt_pressed' = IF key \in AltKeys THEN FALSE ELSE alt_pressed
    /\ meta_pressed' = IF key \in MetaKeys THEN FALSE ELSE meta_pressed
    /\ UNCHANGED <<event_buffer, lock, ppc, pevent, cpc, key_event,
                   total_events, db_events, pushed, polled, evicted, sincePoll,
                   active_window>>
    /\ UNCHANGED <<session_vars, query_vars, serve_vars, thinker_vars>>

\* Faulty variant of ListenError: the error is logged and listening resumes.
ListenError_Resumes ==
    /\ ppc = "listen"
    /\ stderr' = stderr \cup {"listen"}
    /\ UNCHANGED <<event_buffer, lock, ppc, pevent, cpc, key_event, total_events,
                   db_events, pushed, polled, evicted, sincePoll, clock, stored>>
    /\ UNCHANGED <<capture_vars, query_vars, serve_vars, thinker_vars>>

\* listen returns Err(error): eprintln!("Error: {:?}", error), and the
\* closure of thread::spawn ends.  listen fails between two callbacks.
ListenError ==
    /\ ppc = "listen"
    /\ ppc' = "stopped"
    /\ stderr' = stderr \cup {"listen"}
    /\ UNCHANGED <<event_buffer, lock, pevent, cpc, key_event, total_events,
                   db_events, pushed, polled, evicted, sincePoll, clock, stored>>
    /\ UNCHANGED <<capture_vars, query_vars, serve_vars, thinker_vars>>

\* The system clock advances.
ClockTick ==
    /\ clock < MaxClock
    /\ clock' = clock + 1
    /\ UNCHANGED <<event_buffer, lock, ppc, pevent, cpc, key_event, total_events,
                   db_events, pushed, polled, evicted, sincePoll, stderr,
                   stored>>
    /\ UNCHANGED <<capture_vars, query_vars, serve_vars, thinker_vars>>

\* The system clock is set back (clock synchronisation, an administrator).
ClockStepBack ==
    /\ clock > 0
    /\ clock' = clock - 1
    /\ UNCHANGED <<event_buffer, lock, ppc, pevent, cpc, key_event, total_events,
                   db_events, pushed, polled, evicted, sincePoll, stderr,
                   stored>>
    /\ UNCHANGED <<capture_vars, query_vars, serve_vars, thinker_vars>>

\* Any other event type (mouse, wheel): `_ => {}`.
OtherEvent(event_type) ==
    /\ ppc = "listen"
    /\ rdev_event' = Some(RdevEvent(event_type, ""))
    /\ UNCHANGED <<event_buffer, lock, ppc, pevent, cpc, key_event,
                   total_events, db_events, pushed, polled, evicted, sincePoll,
                   held, active_window>>
    /\ UNCHANGED <<modifier_vars, session_vars, query_vars, serve_vars, thinker_vars>>

\* Faulty variant of ProducerLock: enters the buffer without waiting for the mutex.
ProducerLock_NoWait ==
    /\ ppc = "lock"
    /\ lock' = "producer"
    /\ ppc' = "push_back"
    /\ UNCHANGED <<event_buffer, pevent, cpc, key_event, total_events,
                   db_events, pushed, polled, evicted, sincePoll>>
    /\ UNCHANGED <<capture_vars, session_vars, query_vars, serve_vars, thinker_vars>>

\* buffer_clone.lock().unwrap(): blocks until the mutex is free.
ProducerLock ==
    /\ ppc = "lock"
    /\ lock = "free"
    /\ lock' = "producer"
    /\ ppc' = "push_back"
    /\ UNCHANGED <<event_buffer, pevent, cpc, key_event, total_events,
                   db_events, pushed, polled, evicted, sincePoll>>
    /\ UNCHANGED <<capture_vars, session_vars, query_vars, serve_vars, thinker_vars>>

\* buffer.push_back(event)
ProducerPushBack ==
    /\ ppc = "push_back"
    /\ event_buffer' = push_back(event_buffer, pevent[1])
    /\ pushed' = Append(pushed, pevent[1])
    /\ sincePoll' = sincePoll + 1
    /\ pevent' = None
    /\ ppc' = "evict"
    /\ UNCHANGED <<lock, cpc, key_event, total_events, db_events, polled,
                   evicted>>
    /\ UNCHANGED <<capture_vars, session_vars, query_vars, serve_vars, thinker_vars>>

\* Faulty variant of ProducerEvict: an overfull buffer is emptied.
ProducerEvict_Clears ==
    /\ ppc = "evict"
    /\ IF BufferOverfull(event_buffer)
       THEN /\ event_buffer' = <<>>
            /\ evicted' = evicted \o pop_front(event_buffer).item
       ELSE UNCHANGED <<event_buffer, evicted>>
    /\ lock' = "free"
    /\ ppc' = "listen"
    /\ UNCHANGED <<pevent, cpc, key_event, total_events, db_events, pushed,
                   polled, sincePoll>>
    /\ UNCHANGED <<capture_vars, session_vars, query_vars, serve_vars, thinker_vars>>

\* if buffer.len() > MAX_BUFFER_SIZE { buffer.pop_front(); }  and the guard
\* is dropped at the end of the match arm.
ProducerEvict ==
    /\ ppc = "evict"
    /\ IF BufferOverfull(event_buffer)
       THEN /\ event_buffer' = pop_front(event_buffer).queue
            /\ evicted' = evicted \o pop_front(event_buffer).item
       ELSE UNCHANGED <<event_buffer, evicted>>
    /\ lock' = "free"
    /\ ppc' = "listen"
    /\ UNCHANGED <<pevent, cpc, key_event, total_events, db_events, pushed,
                   polled, sincePoll>>
    /\ UNCHANGED <<capture_vars, session_vars, query_vars, serve_vars, thinker_vars>>

\* ------------------------------------------------------ consumer: poll loop

\* Faulty variant of PollTimerTick: the timer fires only until the first
\* event has been polled.
PollTimerTick_Once ==
    /\ cpc = "select"
    /\ polled = <<>>
    /\ cpc' = "poll_lock"
    /\ UNCHANGED <<event_buffer, lock, ppc, pevent, key_event, total_events,
                   db_events, pushed, polled, evicted, sincePoll>>
    /\ UNCHANGED <<capture_vars, session_vars, query_vars, serve_vars, thinker_vars>>

\* poll_timer.tick() fires in the select!; the while-let loop starts.
PollTimerTick ==
    /\ cpc = "select"
    /\ cpc' = "poll_lock"
    /\ UNCHANGED <<event_buffer, lock, ppc, pevent, key_event, total_events,
                   db_events, pushed, polled, evicted, sincePoll>>
    /\ UNCHANGED <<capture_vars, session_vars, query_vars, serve_vars, thinker_vars>>

\* Keylogger::poll: self.event_buffer.lock().unwrap()
PollLock ==
    /\ cpc = "poll_lock"
    /\ lock = "free"
    /\ lock' = "consumer"
    /\ cpc' = "pop_front"
    /\ UNCHANGED <<event_buffer, ppc, pevent, key_event, total_events,
                   db_events, pushed, polled, evicted, sincePoll>>
    /\ UNCHANGED <<capture_vars, session_vars, query_vars, serve_vars, thinker_vars>>

\* Faulty variant of PollPopFront: the guard outlives poll and is still held while
\* the loop body runs.
PollPopFront_KeepsGuard ==
    /\ cpc = "pop_front"
    /\ LET r == pop_front(event_buffer) IN
        /\ event_buffer' = r.queue
        /\ key_event' = r.item
        /\ polled' = polled \o r.item
        /\ total_events' = total_events + Len(r.item)
        /\ cpc' = IF r.item = None THEN "select" ELSE "store"
        /\ lock' = IF r.item = None THEN "free" ELSE "consumer"
    /\ sincePoll' = 0
    /\ UNCHANGED <<ppc, pevent, db_events, pushed, evicted>>
    /\ UNCHANGED <<capture_vars, session_vars, query_vars, serve_vars, thinker_vars>>

\* Faulty variant of PollPopFront: an empty buffer is reported as the head of the
\* events drained so far instead of None.
PollPopFront_NoEmptyMarker ==
    /\ cpc = "pop_front"
    /\ LET r == IF event_buffer = <<>> /\ polled # <<>>
                THEN [queue |-> <<>>, item |-> Some(polled[Len(polled)])]
                ELSE pop_front(event_buffer) IN
        /\ event_buffer' = r.queue
        /\ key_event' = r.item
        /\ polled' = polled \o r.item
        /\ total_events' = total_events + Len(r.item)
        /\ cpc' = IF r.item = None THEN "select" ELSE "store"
    /\ lock' = "free"
    /\ sincePoll' = 0
    /\ UNCHANGED <<ppc, pevent, db_events, pushed, evicted>>
    /\ UNCHANGED <<capture_vars, session_vars, query_vars, serve_vars, thinker_vars>>

\* Keylogger::poll: buffer.pop_front(), the guard dropped on return.  Some
\* enters the loop body (total_events.fetch_add); None ends the while-let.
PollPopFront ==
    /\ cpc = "pop_front"
    /\ LET r == pop_front(event_buffer) IN
        /\ event_buffer' = r.queue
        /\ key_event' = r.item
        /\ polled' = polled \o r.item
        /\ total_events' = total_events + Len(r.item)
        /\ cpc' = IF r.item = None THEN "select" ELSE "store"
    /\ lock' = "free"
    /\ sincePoll' = 0
    /\ UNCHANGED <<ppc, pevent, db_events, pushed, evicted>>
    /\ UNCHANGED <<capture_vars, session_vars, query_vars, serve_vars, thinker_vars>>

\* Faulty variant of StoreEvent: a failed store ends the poll loop.
StoreEvent_StopsOnError(ok) ==
    /\ cpc = "store"
    /\ db_events' = IF ok THEN Append(db_events, key_event[1]) ELSE db_events
    /\ stored' = Append(stored, [event |-> key_event[1], ok |-> ok])
    /\ stderr' = IF ok THEN stderr ELSE stderr \cup {"store"}
    /\ key_event' = None
    /\ cpc' = IF ok THEN "poll_lock" ELSE "stopped"
    /\ UNCHANGED <<event_buffer, lock, ppc, pevent, total_events, pushed,
                   polled, evicted, sincePoll, clock>>
    /\ UNCHANGED <<capture_vars, query_vars, serve_vars, thinker_vars>>

\* client.store_event(key_event).await: Ok, or Err which is only logged
\* with eprintln!.  Either way the event is consumed and the while-let
\* polls again.
StoreEvent(ok) ==
    /\ cpc = "store"
    /\ db_events' = IF ok THEN Append(db_events, key_event[1]) ELSE db_events
    /\ stored' = Append(stored, [event |-> key_event[1], ok |-> ok])
    /\ stderr' = IF ok THEN stderr ELSE stderr \cup {"store"}
    /\ key_event' = None
    /\ cpc' = "poll_lock"
    /\ UNCHANGED <<event_buffer, lock, ppc, pevent, total_events, pushed,
                   polled, evicted, sincePoll, clock>>
    /\ UNCHANGED <<capture_vars, query_vars, serve_vars, thinker_vars>>

\* ------------------------------------------------- a component is started

\* The components that construct a TimescaleClient when they start.
Components == {"learner", "thinker", "recall"}

\* TimescaleClient::new in a component that starts while the learner runs:
\* user_events exists, so it is dropped (DROP TABLE user_events CASCADE)
\* and created again, empty, by ensure_tables_exist.
TimescaleClientNew(component) ==
    /\ db_events' = <<>>
    /\ UNCHANGED <<event_buffer, lock, ppc, pevent, cpc, key_event, total_events,
                   pushed, polled, evicted, sincePoll>>
    /\ UNCHANGED <<capture_vars, session_vars, query_vars, serve_vars, thinker_vars>>

\* ====================================================================
\* Part II: recall, QueryEngine (query_engine.rs)
\* ====================================================================

\* ------------------------------------------------------- query sanitizing

is_alphanumeric(c) ==
    CharIn(c, UpperCaseLetters) \/ CharIn(c, LowerCaseLetters) \/ CharIn(c, Digits)

is_whitespace(c) == c = " "

\* query.chars().filter(|c| c.is_alphanumeric() || c.is_whitespace()).collect()
RECURSIVE filter_alnum_ws(_)
filter_alnum_ws(s) ==
    IF Len(s) = 0 THEN ""
    ELSE LET c == CharAt(s, 1)
             rest == filter_alnum_ws(SubSeq(s, 2, Len(s)))
         IN  IF is_alphanumeric(c) \/ is_whitespace(c) THEN c \o rest ELSE rest

\* str::split_whitespace: the maximal runs of non-whitespace, in order.
\* cur is the word being read.
RECURSIVE split_words(_, _)
split_words(s, cur) ==
    IF Len(s) = 0
    THEN IF Len(cur) = 0 THEN <<>> ELSE <<cur>>
    ELSE LET c == CharAt(s, 1)
             rest == SubSeq(s, 2, Len(s))
         IN  IF is_whitespace(c)
             THEN (IF Len(cur) = 0 THEN <<>> ELSE <<cur>>) \o split_words(rest, "")
             ELSE split_words(rest, cur \o c)

split_whitespace(s) == split_words(s, "")

\* [&str]::join(sep)
RECURSIVE join(_, _)
join(words, sep) ==
    IF words = <<>> THEN ""
    ELSE IF Len(words) = 1 THEN words[1]
    ELSE words[1] \o sep \o join(Tail(words), sep)

\* "take words 3+ chars" (query_engine.rs:362)
MIN_TERM_LEN == 3

\* QueryEngine::sanitize_query_for_search
sanitize_query_for_search(query) ==
    LET clean_query == filter_alnum_ws(query)
        terms == SelectSeq(split_whitespace(clean_query),
                           LAMBDA word : Len(word) >= MIN_TERM_LEN)
    IN  IF terms = <<>> THEN "user activity" ELSE join(terms, " OR ")

\* --------------------------------------------------------------------- time
\* An instant (DateTime<Utc>) is a number of minutes since 2024-01-01 00:00
\* UTC, a Monday and the first day of a month.  The local timezone is a fixed
\* offset in minutes (Local = Utc + tz).

MinutesPerHour == 60

MinutesPerDay == 1440

\* date_naive() of an instant seen in the local timezone: days since the epoch.
LocalDate(t, tz) == (t + tz) \div MinutesPerDay

\* date.and_time(NaiveTime 00:00:00).and_local_timezone(Utc).unwrap(): the
\* local calendar date's midnight, read as a UTC time of day.
MidnightAsUtc(date) == date * MinutesPerDay

\* weekday().num_days_from_monday() of the local date
num_days_from_monday(t, tz) == LocalDate(t, tz) % 7

\* The first day of the month of a date: January 2024 has 31 days, February
\* 29, December 2023 (before the epoch) 31.
FirstOfMonth(date) ==
    IF date < 0 THEN -31
    ELSE IF date < 31 THEN 0
    ELSE IF date < 60 THEN 31
    ELSE 60

\* Local::now().with_day(1)...with_hour(0)...with_timezone(&Utc): midnight of
\* the first of the month in local time, converted to UTC.
StartOfLocalMonth(t, tz) == FirstOfMonth(LocalDate(t, tz)) * MinutesPerDay - tz

Timeframe(start, end, description) ==
    [start |-> start, end |-> end, description |-> description]

\* Faulty variant of DefaultStart: the default window is 12 hours.
DefaultStart_TwelveHours(now) == now - 12 * MinutesPerHour

\* let start = now - Duration::hours(24)
DefaultStart(now) == now - 24 * MinutesPerHour

\* Faulty variant of parse_timeframe: "yesterday" is tested before "today".
parse_timeframe_YesterdayFirst(query0, now, tz) ==
    LET query == to_lowercase(query0)
        days_since_monday == num_days_from_monday(now, tz)
    IN  IF contains(query, "yesterday")
        THEN Timeframe(MidnightAsUtc(LocalDate(now - MinutesPerDay, tz)),
                       MidnightAsUtc(LocalDate(now, tz)), "yesterday")
        ELSE IF contains(query, "today")
        THEN Timeframe(MidnightAsUtc(LocalDate(now, tz)), now, "today")
        ELSE IF contains(query, "this week")
        THEN Timeframe(MidnightAsUtc(LocalDate(now - days_since_monday * MinutesPerDay, tz)),
                       now, "this week")
        ELSE IF contains(query, "last week")
        THEN Timeframe(MidnightAsUtc(LocalDate(now - (days_since_monday + 7) * MinutesPerDay, tz)),
                       MidnightAsUtc(LocalDate(now - days_since_monday * MinutesPerDay, tz)),
                       "last week")
        ELSE IF contains(query, "this month")
        THEN Timeframe(StartOfLocalMonth(now, tz), now, "this month")
        ELSE IF contains(query, "last hour") \/ contains(query, "past hour")
        THEN Timeframe(now - MinutesPerHour, now, "the last hour")
        ELSE IF contains(query, "30 min") \/ contains(query, "half hour")
                \/ contains(query, "half an hour")
        THEN Timeframe(now - 30, now, "the last 30 minutes")
        ELSE Timeframe(DefaultStart(now), now, "the last 24 hours")

\* QueryEngine::parse_timeframe, with now = Utc::now() and Local::now() read
\* at the same instant.
parse_timeframe(query0, now, tz) ==
    LET query == to_lowercase(query0)
        days_since_monday == num_days_from_monday(now, tz)
    IN  IF contains(query, "today")
        THEN Timeframe(MidnightAsUtc(LocalDate(now, tz)), now, "today")
        ELSE IF contains(query, "yesterday")
        THEN Timeframe(MidnightAsUtc(LocalDate(now - MinutesPerDay, tz)),
                       MidnightAsUtc(LocalDate(now, tz)), "yesterday")
        ELSE IF contains(query, "this week")
        THEN Timeframe(MidnightAsUtc(LocalDate(now - days_since_monday * MinutesPerDay, tz)),
                       now, "this week")
        ELSE IF contains(query, "last week")
        THEN Timeframe(MidnightAsUtc(LocalDate(now - (days_since_monday + 7) * MinutesPerDay, tz)),
                       MidnightAsUtc(LocalDate(now - days_since_monday * MinutesPerDay, tz)),
                       "last week")
        ELSE IF contains(query, "this month")
        THEN Timeframe(StartOfLocalMonth(now, tz), now, "this month")
        ELSE IF contains(query, "last hour") \/ contains(query, "past hour")
        THEN Timeframe(now - MinutesPerHour, now, "the last hour")
        ELSE IF contains(query, "30 min") \/ contains(query, "half hour")
                \/ contains(query, "half an hour")
        THEN Timeframe(now - 30, now, "the last 30 minutes")
        ELSE Timeframe(DefaultStart(now), now, "the last 24 hours")

\* ---------------------------------------------------------------- app filter

known_apps == <<"ghostty", "vscode", "visual studio code", "chrome", "firefox",
                "safari", "terminal", "slack", "discord", "notion", "figma">>

Prepositions == <<" in ", " on ", " using ", " with ", " at ">>

\* The patterns of one app: "{prep}{app} ", then "{prep}{app}." and
\* "{prep}{app}?".
AppPatterns(app) ==
    {Prepositions[i] \o app \o ending :
        i \in 1..Len(Prepositions), ending \in {" ", ".", "?"}}

AppMatches(query, app) == \E pattern \in AppPatterns(app) : contains(query, pattern)

\* Faulty variant of extract_app_name: the last matching app of the list wins.
extract_app_name_LastInList(query0) ==
    LET query == to_lowercase(query0)
        hits == {i \in 1..Len(known_apps) : AppMatches(query, known_apps[i])}
    IN  IF hits = {} THEN None
        ELSE Some(known_apps[CHOOSE i \in hits : \A j \in hits : i >= j])

\* QueryEngine::extract_app_name: the first app of known_apps with a matching
\* pattern.
extract_app_name(query0) ==
    LET query == to_lowercase(query0)
        hits == {i \in 1..Len(known_apps) : AppMatches(query, known_apps[i])}
    IN  IF hits = {} THEN None
        ELSE Some(known_apps[CHOOSE i \in hits : \A j \in hits : i <= j])

\* ------------------------------------------------------------------- stores

\* Instant of day `day` (0 = 2024-01-01) at hour:minute UTC.
At(day, hour, minute) == day * MinutesPerDay + hour * MinutesPerHour + minute

\* Rows the thinker may have written to user_summaries (start times differ,
\* so ORDER BY start_time is a total order).
SummaryRows ==
    { [id |-> 1, start_time |-> At(16, 10, 0), end_time |-> At(16, 11, 0),
       description |-> "Wrote Rust code in vscode",
       tags |-> <<"coding", "rust">>, keystrokes |-> "fn main"],
      [id |-> 2, start_time |-> At(2, 10, 0), end_time |-> At(2, 11, 0),
       description |-> "Read documentation",
       tags |-> <<"rust">>, keystrokes |-> "docs"],
      [id |-> 3, start_time |-> At(3, 9, 0), end_time |-> At(3, 9, 30),
       description |-> "Fixing RUST lifetimes in chrome.",
       tags |-> <<"debug">>, keystrokes |-> "cargo" ] }

\* Rows the learner may have written to user_events.
EventRows ==
    { [timestamp |-> At(16, 13, 30), event |-> "keystroke", data |-> "KeyA",
       app_context |-> [app_name |-> "Google Chrome Browser",
                        window_title |-> "docs.rs - Google Chrome", url |-> None]],
      [timestamp |-> At(16, 9, 0), event |-> "keystroke", data |-> "KeyB",
       app_context |-> [app_name |-> "Code",
                        window_title |-> "main.rs", url |-> None]] }

\* Queries received by the service (already trimmed by handle_client).
Queries == {"rust", "what did I do today?", "What did I do in Chrome?", "anything",
            "go on VSCode.", "do in chrome?", "Fuzzy: rust"}

\* Readings of Utc::now() and offsets of the local timezone, in minutes.
Instants == {At(16, 14, 0), At(17, 1, 0)}

TzOffsets == {-300, 0, 330}

\* Query strings given to process_query on fresh stores: no phrase, one
\* phrase, several time phrases in both orders, app patterns.
ParseQueries ==
    { "", "banana", "anything",
      "what did I do on vscode today", "what did I do today",
      "yesterday and today", "Half An Hour YESTERDAY",
      "last week or this week", "this month, not last week",
      "past hour of this month", "30 min of the last hour",
      "past hour", "half hour", "half an hour in figma?",
      "THIS WEEK", "Yesterday", "this month", "last week",
      "work on Slack in chrome now", "coding with VSCode.",
      "I was using visual studio code?", "was at terminal. or in ghostty?",
      "what did I do in chrome", "today in notion." }

\* Clock readings around day, week and month boundaries of the local date.
ParseInstants ==
    { At(16, 14, 0), At(16, 22, 0), At(0, 2, 0), At(31, 3, 0), At(20, 23, 0) }

AllQueries == Queries \cup ParseQueries

AllInstants == Instants \cup ParseInstants

\* ORDER BY start_time DESC on a set of user_summaries rows.
RECURSIVE OrderByStartTimeDesc(_)
OrderByStartTimeDesc(rows) ==
    IF rows = {} THEN <<>>
    ELSE LET first == CHOOSE r \in rows : \A o \in rows : o.start_time <= r.start_time
         IN  <<first>> \o OrderByStartTimeDesc(rows \ {first})

\* ORDER BY timestamp ASC on a set of user_events rows.
RECURSIVE OrderByTimestampAsc(_)
OrderByTimestampAsc(rows) ==
    IF rows = {} THEN <<>>
    ELSE LET first == CHOOSE r \in rows : \A o \in rows : r.timestamp <= o.timestamp
         IN  <<first>> \o OrderByTimestampAsc(rows \ {first})

\* x BETWEEN lo AND hi
Between(x, lo, hi) == lo <= x /\ x <= hi

\* LIMIT n
Limit(rows, n) == IF Len(rows) <= n THEN rows ELSE SubSeq(rows, 1, n)

\* "LIMIT 10" of search_summaries (query_engine.rs:221)
SEARCH_LIMIT == 10

\* QueryEngine::create_events_from_keystrokes
create_events_from_keystrokes(keystrokes, start_time, end_time) ==
    << [timestamp |-> start_time, event |-> "keystroke_summary", data |-> keystrokes,
        app_context |-> [app_name |-> "Summary",
                         window_title |-> "Activity Summary", url |-> None]] >>

\* QueryEngine::parse_summary_from_row
parse_summary_from_row(row) ==
    [start_time |-> row.start_time,
     end_time |-> row.end_time,
     description |-> row.description,
     events |-> create_events_from_keystrokes(row.keystrokes, row.start_time, row.end_time),
     tags |-> row.tags]

\* for row in rows { summaries.push(self.parse_summary_from_row(row)?) }
parse_rows(rows) == [i \in 1..Len(rows) |-> parse_summary_from_row(rows[i])]

\* QueryEngine::get_summaries_in_timeframe on a reachable store: the WHERE
\* clause, ORDER BY start_time DESC, and the row conversion.
get_summaries_in_timeframe(table, start, end) ==
    LET selected == {row \in table :
                        \/ Between(row.start_time, start, end)
                        \/ Between(row.end_time, start, end)
                        \/ (row.start_time <= start /\ row.end_time >= end)}
    IN  parse_rows(OrderByStartTimeDesc(selected))

\* description ILIKE '%term%': the sanitized term holds no LIKE wildcard.
ILike(text, term) == contains(to_lowercase(text), to_lowercase(term))

\* QueryEngine::search_summaries
search_summaries(table, search_term) ==
    LET selected == {row \in table : ILike(row.description, search_term)}
    IN  parse_rows(Limit(OrderByStartTimeDesc(selected), SEARCH_LIMIT))

\* The closure passed to filter in get_summaries_by_app and
\* search_summaries_by_app.
SummaryMentionsApp(summary, app_name) ==
    LET app_name_lower == to_lowercase(app_name)
        desc_contains == contains(to_lowercase(summary.description), app_name_lower)
        events_contain == \E i \in 1..Len(summary.events) :
            contains(to_lowercase(summary.events[i].app_context.app_name), app_name_lower)
        tags_contain == \E i \in 1..Len(summary.tags) :
            contains(to_lowercase(summary.tags[i]), app_name_lower)
    IN  desc_contains \/ events_contain \/ tags_contain

\* QueryEngine::get_summaries_by_app
get_summaries_by_app(table, start, end, app_name) ==
    SelectSeq(get_summaries_in_timeframe(table, start, end),
              LAMBDA summary : SummaryMentionsApp(summary, app_name))

\* QueryEngine::search_summaries_by_app
search_summaries_by_app(table, search_term, app_name) ==
    SelectSeq(search_summaries(table, search_term),
              LAMBDA summary : SummaryMentionsApp(summary, app_name))

\* TimescaleClient::get_events_in_timeframe
get_events_in_timeframe(table, start, end) ==
    OrderByTimestampAsc({row \in table : row.timestamp >= start /\ row.timestamp <= end})

\* Faulty variant of get_events_by_app: the events are returned unfiltered.
get_events_by_app_NoFilter(table, start, end, app_name) ==
    get_events_in_timeframe(table, start, end)

\* QueryEngine::get_events_by_app
get_events_by_app(table, start, end, app_name) ==
    SelectSeq(get_events_in_timeframe(table, start, end),
              LAMBDA event : contains(to_lowercase(event.app_context.app_name),
                                      to_lowercase(app_name)))

\* ---------------------------------------------------------- process_query

NoResult == [variant |-> "none"]

\* Err(e) returned through `?`
ErrResult == [variant |-> "Err"]

\* Faulty variant of SummariesResult: the result carries the sanitized search
\* term instead of the query.
SummariesResult_CleanQuery(summaries, timeframe, query, app_filter) ==
    [variant |-> "Summaries", summaries |-> summaries, timeframe |-> timeframe,
     query |-> sanitize_query_for_search(query), app_filter |-> app_filter]

SummariesResult(summaries, timeframe, query, app_filter) ==
    [variant |-> "Summaries", summaries |-> summaries, timeframe |-> timeframe,
     query |-> query, app_filter |-> app_filter]

EventsResult(events, timeframe, query, app_filter) ==
    [variant |-> "Events", events |-> events, timeframe |-> timeframe,
     query |-> query, app_filter |-> app_filter]

EmptyResult(timeframe, query, app_filter) ==
    [variant |-> "Empty", timeframe |-> timeframe, query |-> query,
     app_filter |-> app_filter]

\* One store call of process_query as recorded in q_calls.
Call(tier, ok, rows) == [tier |-> tier, ok |-> ok, rows |-> rows]

QueryInit ==
    /\ user_summaries = {}
    /\ user_events = {}
    /\ event_db \in BOOLEAN
    /\ q_pc = "idle"
    /\ q_query = ""
    /\ q_now = 0
    /\ q_tz = 0
    /\ q_timeframe = Timeframe(0, 0, "")
    /\ q_app_filter = None
    /\ q_calls = <<>>
    /\ q_result = NoResult
    /\ q_first = None

\* The recall service is not running.
RecallDown == QueryInit /\ event_db = FALSE

\* store_timescale_summary by the thinker: one more row in user_summaries.
InsertSummary(row) ==
    /\ row \notin user_summaries
    /\ user_summaries' = user_summaries \cup {row}
    /\ UNCHANGED <<user_events, event_db, q_pc, q_query, q_now, q_tz, q_timeframe,
                   q_app_filter, q_calls, q_result>>
    /\ UNCHANGED <<q_first, learner_vars, serve_vars, thinker_vars>>

\* store_event by the learner: one more row in user_events.
InsertEvent(row) ==
    /\ row \notin user_events
    /\ user_events' = user_events \cup {row}
    /\ UNCHANGED <<user_summaries, event_db, q_pc, q_query, q_now, q_tz, q_timeframe,
                   q_app_filter, q_calls, q_result>>
    /\ UNCHANGED <<q_first, learner_vars, serve_vars, thinker_vars>>

\* The pure functions of process_query on the inputs of the model, computed
\* once.
timeframe_of ==
    [query \in AllQueries, now \in AllInstants, tz \in TzOffsets |->
        parse_timeframe(query, now, tz)]

app_filter_of == [query \in AllQueries |-> extract_app_name(query)]

clean_query_of == [query \in AllQueries |-> sanitize_query_for_search(query)]

\* process_query is called: timeframe and app_filter are computed, then the
\* first store call is awaited.
ReceiveQuery(query, now, tz) ==
    /\ q_pc = "idle"
    /\ q_query' = query
    /\ q_now' = now
    /\ q_tz' = tz
    /\ q_timeframe' = timeframe_of[query, now, tz]
    /\ q_app_filter' = app_filter_of[query]
    /\ q_calls' = <<>>
    /\ q_result' = NoResult
    /\ q_pc' = "tierA"
    /\ UNCHANGED <<user_summaries, user_events, event_db>>
    /\ UNCHANGED <<q_first, learner_vars, serve_vars, thinker_vars>>

\* Faulty variant of TierA: summaries that were found do not end the resolution.
TierA_NoStop(ok) ==
    /\ q_pc = "tierA"
    /\ LET summaries ==
            IF ~ok THEN <<>>
            ELSE IF q_app_filter # None
            THEN get_summaries_by_app(user_summaries, q_timeframe.start,
                                      q_timeframe.end, q_app_filter[1])
            ELSE get_summaries_in_timeframe(user_summaries, q_timeframe.start,
                                            q_timeframe.end)
       IN  /\ q_calls' = Append(q_calls, Call("A", ok, summaries))
           /\ IF ~ok
              THEN q_result' = ErrResult /\ q_pc' = "done"
              ELSE /\ q_result' = q_result
                   /\ q_pc' = IF event_db THEN "tierB" ELSE "tierC"
    /\ UNCHANGED <<user_summaries, user_events, event_db, q_query, q_now, q_tz, q_timeframe,
                   q_app_filter>>
    /\ UNCHANGED <<q_first, learner_vars, serve_vars, thinker_vars>>

\* Lines 33-48: the windowed summaries, filtered by app when a filter was
\* extracted.  A failed call (ok = FALSE) leaves process_query through `?`.
TierA(ok) ==
    /\ q_pc = "tierA"
    /\ LET summaries ==
            IF ~ok THEN <<>>
            ELSE IF q_app_filter # None
            THEN get_summaries_by_app(user_summaries, q_timeframe.start,
                                      q_timeframe.end, q_app_filter[1])
            ELSE get_summaries_in_timeframe(user_summaries, q_timeframe.start,
                                            q_timeframe.end)
       IN  /\ q_calls' = Append(q_calls, Call("A", ok, summaries))
           /\ IF ~ok
              THEN q_result' = ErrResult /\ q_pc' = "done"
              ELSE IF summaries # <<>>
              THEN /\ q_result' = SummariesResult(summaries, q_timeframe, q_query,
                                                  q_app_filter)
                   /\ q_pc' = "done"
              ELSE /\ q_result' = q_result
                   /\ q_pc' = IF event_db THEN "tierB" ELSE "tierC"
    /\ UNCHANGED <<user_summaries, user_events, event_db, q_query, q_now, q_tz, q_timeframe,
                   q_app_filter>>
    /\ UNCHANGED <<q_first, learner_vars, serve_vars, thinker_vars>>

\* Lines 50-67: the windowed events, only with an event database.
TierB(ok) ==
    /\ q_pc = "tierB"
    /\ LET events ==
            IF ~ok THEN <<>>
            ELSE IF q_app_filter # None
            THEN get_events_by_app(user_events, q_timeframe.start, q_timeframe.end,
                                   q_app_filter[1])
            ELSE get_events_in_timeframe(user_events, q_timeframe.start,
                                         q_timeframe.end)
       IN  /\ q_calls' = Append(q_calls, Call("B", ok, events))
           /\ IF ~ok
              THEN q_result' = ErrResult /\ q_pc' = "done"
              ELSE IF events # <<>>
              THEN /\ q_result' = EventsResult(events, q_timeframe, q_query,
                                               q_app_filter)
                   /\ q_pc' = "done"
              ELSE /\ q_result' = q_result
                   /\ q_pc' = "tierC"
    /\ UNCHANGED <<user_summaries, user_events, event_db, q_query, q_now, q_tz, q_timeframe,
                   q_app_filter>>
    /\ UNCHANGED <<q_first, learner_vars, serve_vars, thinker_vars>>

\* Faulty variant of TierC: the content search returns Summaries whatever
\* it found.
TierC_AlwaysSummaries(ok) ==
    /\ q_pc = "tierC"
    /\ LET clean_query == clean_query_of[q_query]
           summaries ==
            IF ~ok THEN <<>>
            ELSE IF q_app_filter # None
            THEN search_summaries_by_app(user_summaries, clean_query, q_app_filter[1])
            ELSE search_summaries(user_summaries, clean_query)
       IN  /\ q_calls' = Append(q_calls, Call("C", ok, summaries))
           /\ q_result' =
                IF ~ok THEN ErrResult
                ELSE SummariesResult(summaries, q_timeframe, q_query, q_app_filter)
    /\ q_pc' = "done"
    /\ UNCHANGED <<user_summaries, user_events, event_db, q_query, q_now, q_tz, q_timeframe,
                   q_app_filter>>
    /\ UNCHANGED <<q_first, learner_vars, serve_vars, thinker_vars>>

\* Lines 69-91: the content search, then Empty.
TierC(ok) ==
    /\ q_pc = "tierC"
    /\ LET clean_query == clean_query_of[q_query]
           summaries ==
            IF ~ok THEN <<>>
            ELSE IF q_app_filter # None
            THEN search_summaries_by_app(user_summaries, clean_query, q_app_filter[1])
            ELSE search_summaries(user_summaries, clean_query)
       IN  /\ q_calls' = Append(q_calls, Call("C", ok, summaries))
           /\ q_result' =
                IF ~ok THEN ErrResult
                ELSE IF summaries # <<>>
                THEN SummariesResult(summaries, q_timeframe, q_query, q_app_filter)
                ELSE EmptyResult(q_timeframe, q_query, q_app_filter)
    /\ q_pc' = "done"
    /\ UNCHANGED <<user_summaries, user_events, event_db, q_query, q_now, q_tz, q_timeframe,
                   q_app_filter>>
    /\ UNCHANGED <<q_first, learner_vars, serve_vars, thinker_vars>>

\* Faulty variant of Return: the call leaves the engine without its event
\* database.
Return_DropsEventDb ==
    /\ q_pc = "done"
    /\ q_pc' = "idle"
    /\ event_db' = FALSE
    /\ UNCHANGED <<user_summaries, user_events, q_query, q_now, q_tz, q_timeframe,
                   q_app_filter, q_calls, q_result>>
    /\ UNCHANGED <<q_first, learner_vars, serve_vars, thinker_vars>>

\* process_query has returned to its caller; the engine can be called again.
Return ==
    /\ q_pc = "done"
    /\ q_pc' = "idle"
    /\ UNCHANGED <<user_summaries, user_events, event_db, q_query, q_now, q_tz, q_timeframe,
                   q_app_filter, q_calls, q_result>>
    /\ UNCHANGED <<q_first, learner_vars, serve_vars, thinker_vars>>

\* process_query is called a second time with the query of the call that
\* has just returned, at the same clock reading.
RepeatQuery ==
    /\ q_pc = "idle"
    /\ q_result # NoResult
    /\ q_first = None
    /\ q_first' = Some(q_result)
    /\ q_timeframe' = timeframe_of[q_query, q_now, q_tz]
    /\ q_app_filter' = app_filter_of[q_query]
    /\ q_calls' = <<>>
    /\ q_result' = NoResult
    /\ q_pc' = "tierA"
    /\ UNCHANGED <<user_summaries, user_events, event_db, q_query, q_now, q_tz>>
    /\ UNCHANGED <<learner_vars, serve_vars, thinker_vars>>

\* The stores hold any of the rows when the service starts.
QueryInitStored ==
    /\ user_summaries \in SUBSET SummaryRows
    /\ user_events \in SUBSET EventRows
    /\ event_db \in BOOLEAN
    /\ q_pc = "idle"
    /\ q_query = ""
    /\ q_now = 0
    /\ q_tz = 0
    /\ q_timeframe = Timeframe(0, 0, "")
    /\ q_app_filter = None
    /\ q_calls = <<>>
    /\ q_result = NoResult
    /\ q_first = None

\* ====================================================================
\* Part III: recall, the TCP service (main.rs) and its client (ui/main.rs)
\* ====================================================================

Conns == 1..MaxConns

\* What the client types and submits; App::submit_query sends nothing for
\* an empty input.  The requests are ASCII text.
Requests == {"what now ", "what did I do today?"}

\* The bytes of a write_all reach the server's socket in one segment or in
\* two, the first of this length.
FirstSegment == 4

\* The lengths the next segment of a connection's request can have.
SegmentLengths(conn) ==
    IF conn.sent = 0
    THEN {FirstSegment, Len(conn.request)}
    ELSE {Len(conn.request) - conn.sent}

\* What QueryEngine::process_query returns to the service.
EngineOutcomes == {"Summaries", "Events", "Empty", "Err"}

\* String::from_utf8_lossy on bytes that are ASCII text.
from_utf8_lossy(bytes) == bytes

Min(a, b) == IF a <= b THEN a ELSE b

\* A connection nobody has opened yet.
NoConnection ==
    [pc |-> "none", request |-> "", sent |-> 0, inbox |-> "", reads |-> 0,
     query |-> None, response |-> None, writes |-> 0, received |-> <<>>]

ServeInit ==
    /\ connections = [c \in Conns |-> NoConnection]
    /\ llm_client = 0

\* TcpStream::connect in the client; listener.accept() and tokio::spawn of
\* handle_client in the service.  Connections are accepted one after another.
Connect(c, request) ==
    /\ connections[c].pc = "none"
    /\ \A d \in Conns : d < c => connections[d].pc # "none"
    /\ connections' = [connections EXCEPT ![c].pc = "read", ![c].request = request]
    /\ UNCHANGED llm_client
    /\ UNCHANGED <<learner_vars, query_vars, thinker_vars>>

\* stream.write_all(input): the next segment of the request arrives.
ClientSend(c, n) ==
    /\ connections[c].pc = "read"
    /\ connections[c].sent < Len(connections[c].request)
    /\ n \in SegmentLengths(connections[c])
    /\ LET conn == connections[c]
           upto == Min(conn.sent + n, Len(conn.request))
       IN  connections' =
               [connections EXCEPT
                   ![c].inbox = conn.inbox \o SubSeq(conn.request, conn.sent + 1, upto),
                   ![c].sent = upto]
    /\ UNCHANGED llm_client
    /\ UNCHANGED <<learner_vars, query_vars, thinker_vars>>

\* Faulty variant of ReadError: the error ends the service, every
\* connection is closed.
ReadError_StopsService(c) ==
    /\ connections[c].pc = "read"
    /\ connections' = [d \in Conns |-> [connections[d] EXCEPT !.pc = "closed"]]
    /\ UNCHANGED llm_client
    /\ UNCHANGED <<learner_vars, query_vars, thinker_vars>>

\* socket.read(&mut buffer) returns Err: logged, handle_client returns and
\* the socket is dropped.
ReadError(c) ==
    /\ connections[c].pc = "read"
    /\ connections' = [connections EXCEPT ![c].pc = "closed"]
    /\ UNCHANGED llm_client
    /\ UNCHANGED <<learner_vars, query_vars, thinker_vars>>

\* let n = socket.read(&mut buffer).await: one read, of the bytes that have
\* arrived, at most the size of the buffer; then from_utf8_lossy and trim.
Read(c) ==
    /\ connections[c].pc = "read"
    /\ connections[c].inbox # ""
    /\ LET conn == connections[c]
           n == Min(Len(conn.inbox), READ_BUFFER_SIZE)
       IN  connections' =
               [connections EXCEPT
                   ![c].query = Some(trim(from_utf8_lossy(SubSeq(conn.inbox, 1, n)))),
                   ![c].inbox = SubSeq(conn.inbox, n + 1, Len(conn.inbox)),
                   ![c].reads = conn.reads + 1,
                   ![c].pc = "process_query"]
    /\ UNCHANGED llm_client
    /\ UNCHANGED <<learner_vars, query_vars, thinker_vars>>

\* process_query of main.rs: the engine's answer.  A non-empty listing goes
\* to the formatter that asks the LLM; Empty and Err are answered at once.
ProcessQuery(c, outcome) ==
    /\ connections[c].pc = "process_query"
    /\ connections' =
           [connections EXCEPT
               ![c].pc = IF outcome \in {"Summaries", "Events"}
                         THEN "lock" ELSE "write_all",
               ![c].response = CASE outcome = "Empty" -> Some("no_data")
                                 [] outcome = "Err" -> Some("error")
                                 [] OTHER -> None]
    /\ UNCHANGED llm_client
    /\ UNCHANGED <<learner_vars, query_vars, thinker_vars>>

\* let client = llm_client.lock().await: waits until the mutex is free.
LockLlm(c) ==
    /\ connections[c].pc = "lock"
    /\ llm_client = 0
    /\ llm_client' = c
    /\ connections' = [connections EXCEPT ![c].pc = "generate_text"]
    /\ UNCHANGED <<learner_vars, query_vars, thinker_vars>>

\* client.generate_text(&prompt).await under the guard; the guard is dropped
\* when the function returns.  Ok gives the AI listing, Err the simple
\* listing of the fallback formatter: a listing either way.
GenerateText(c, ok) ==
    /\ connections[c].pc = "generate_text"
    /\ llm_client' = 0
    /\ connections' =
           [connections EXCEPT
               ![c].pc = "write_all",
               ![c].response = Some("listing")]
    /\ UNCHANGED <<learner_vars, query_vars, thinker_vars>>

\* Faulty variant of WriteAll: the task reads the socket again.
WriteAll_KeepsOpen(c, ok) ==
    /\ connections[c].pc = "write_all"
    /\ connections' =
           [connections EXCEPT
               ![c].writes = connections[c].writes + 1,
               ![c].received = IF ok THEN Append(connections[c].received,
                                                 connections[c].response[1])
                               ELSE connections[c].received,
               ![c].pc = IF connections[c].writes = 0 THEN "read" ELSE "closed"]
    /\ UNCHANGED llm_client
    /\ UNCHANGED <<learner_vars, query_vars, thinker_vars>>

\* socket.write_all(response): the client receives the response, or the
\* write fails and is logged; handle_client returns and the socket is
\* dropped.
WriteAll(c, ok) ==
    /\ connections[c].pc = "write_all"
    /\ connections' =
           [connections EXCEPT
               ![c].writes = connections[c].writes + 1,
               ![c].received = IF ok THEN Append(connections[c].received,
                                                 connections[c].response[1])
                               ELSE connections[c].received,
               ![c].pc = "closed"]
    /\ UNCHANGED llm_client
    /\ UNCHANGED <<learner_vars, query_vars, thinker_vars>>

\* ====================================================================
\* Part IV: thinker, Thinker::start (src/thinker/mod.rs)
\* ====================================================================

\* How a process_time_window call ends: a summary was stored, there were
\* no events in the window (Ok both), or a store or LLM call failed (Err).
WindowOutcomes == {"summary", "no_events", "error"}

\* let mut last_processed_time = Utc::now() - self.processing_interval
ThinkerInit ==
    /\ t_pc = "tick"
    /\ last_processed_time = 0 - ProcessingInterval
    /\ current_time = 0
    /\ t_windows = <<>>

\* interval.tick().await; let current_time = Utc::now(); the window is
\* processed if it is at least one processing interval long.
IntervalTick ==
    /\ t_pc = "tick"
    /\ Len(t_windows) < MaxWindows
    /\ current_time' = clock
    /\ t_pc' = IF clock - last_processed_time >= ProcessingInterval
               THEN "process" ELSE "tick"
    /\ UNCHANGED <<last_processed_time, t_windows>>
    /\ UNCHANGED <<learner_vars, query_vars, serve_vars>>

\* Faulty variant of ProcessTimeWindow: last_processed_time advances after
\* a failure too.
ProcessTimeWindow_AlwaysAdvances(outcome) ==
    /\ t_pc = "process"
    /\ t_windows' = Append(t_windows, [start_time |-> last_processed_time,
                                       end_time |-> current_time,
                                       outcome |-> outcome])
    /\ last_processed_time' = current_time
    /\ t_pc' = "tick"
    /\ UNCHANGED current_time
    /\ UNCHANGED <<learner_vars, query_vars, serve_vars>>

\* self.process_time_window(last_processed_time, current_time).await: Err
\* is logged, otherwise last_processed_time = current_time.
ProcessTimeWindow(outcome) ==
    /\ t_pc = "process"
    /\ t_windows' = Append(t_windows, [start_time |-> last_processed_time,
                                       end_time |-> current_time,
                                       outcome |-> outcome])
    /\ last_processed_time' = IF outcome = "error"
                              THEN last_processed_time ELSE current_time
    /\ t_pc' = "tick"
    /\ UNCHANGED current_time
    /\ UNCHANGED <<learner_vars, query_vars, serve_vars>>

\* ----------------------------------------------------------- specifications

\* The learner process: capture thread and poll loop.
Init == LearnerInit /\ RecallDown /\ ServeInit /\ ThinkerInit

LearnerNext ==
    \/ \E key \in Keys, probe \in ProbeResults : KeyPress(key, probe)
    \/ ProducerLock
    \/ ProducerPushBack
    \/ ProducerEvict
    \/ PollTimerTick
    \/ PollLock
    \/ PollPopFront
    \/ \E ok \in BOOLEAN : StoreEvent(ok)
    \/ ListenError

Next == LearnerNext

Spec == Init /\ [][Next]_vars

\* The capture thread alone, on the full input stream: key presses and
\* releases of modifier and other keys, and other input events.
CaptureNext ==
    \/ \E key \in Keys, probe \in ProbeResults :
          Len(pushed) < MaxKeystrokes /\ KeyPress(key, probe)
    \/ \E key \in CaptureModifierKeys : ModifierPress(key)
    \/ \E key \in CaptureModifierKeys \cup Keys : KeyRelease(key)
    \/ \E event_type \in CaptureOtherEventTypes : OtherEvent(event_type)
    \/ ProducerLock
    \/ ProducerPushBack
    \/ ProducerEvict

NextCapture == CaptureNext

SpecCapture == Init /\ [][NextCapture]_vars

\* The learner process with the system clock that stamps the events: the
\* clock advances, and it can be set back.
SessionNext ==
    \/ \E key \in Keys, probe \in ProbeResults :
          Len(pushed) < MaxStamped /\ KeyPress(key, probe)
    \/ ClockTick
    \/ ClockStepBack
    \/ ProducerLock
    \/ ProducerPushBack
    \/ ProducerEvict
    \/ PollTimerTick
    \/ PollLock
    \/ PollPopFront
    \/ \E ok \in BOOLEAN : StoreEvent(ok)

NextSession == SessionNext

SpecSession == Init /\ [][NextSession]_vars

\* The learner process under fair scheduling: a callback that has begun
\* goes on to its push and releases the mutex, the poll timer fires, a poll
\* that can take the mutex takes it, and a store call returns.
DrainNext ==
    \/ \E key \in Keys, probe \in ProbeResults :
          (probe.ok /\ Len(pushed) < MaxDrained) /\ KeyPress(key, probe)
    \/ ListenError
    \/ ProducerLock
    \/ ProducerPushBack
    \/ ProducerEvict
    \/ PollTimerTick
    \/ PollLock
    \/ PollPopFront
    \/ \E ok \in BOOLEAN : StoreEvent(ok)

NextDrain == DrainNext

SpecDrain ==
    /\ Init
    /\ [][NextDrain]_vars
    /\ WF_vars(ProducerLock)
    /\ WF_vars(ProducerPushBack)
    /\ WF_vars(ProducerEvict)
    /\ WF_vars(PollTimerTick)
    /\ WF_vars(PollLock)
    /\ WF_vars(PollPopFront)
    /\ WF_vars(\E ok \in BOOLEAN : StoreEvent(ok))

\* The learner process while other components are started against the
\* same database.
StartupNext ==
    \/ LearnerNext
    \/ \E component \in Components \ {"learner"} : TimescaleClientNew(component)

NextStartup == StartupNext

SpecStartup == Init /\ [][NextStartup]_vars

\* The capture thread alone, typing in windows of many kinds.
ProbeNext ==
    \/ \E key \in Keys, probe \in AllProbeResults :
          Len(pushed) < MaxKeystrokes /\ KeyPress(key, probe)
    \/ \E key \in ShiftKeys : ModifierPress(key)
    \/ \E key \in ShiftKeys \cup Keys : KeyRelease(key)
    \/ \E event_type \in CaptureOtherEventTypes : OtherEvent(event_type)
    \/ ProducerLock
    \/ ProducerPushBack
    \/ ProducerEvict

NextProbe == ProbeNext

SpecProbe == Init /\ [][NextProbe]_vars

\* The recall service: process_query calls against stores that the thinker
\* and the learner keep writing to.
InitQuery == LearnerInit /\ QueryInit /\ ServeInit /\ ThinkerInit

QueryNext ==
    \/ \E row \in SummaryRows : InsertSummary(row)
    \/ \E row \in EventRows : InsertEvent(row)
    \/ \E query \in Queries, now \in Instants, tz \in TzOffsets :
          ReceiveQuery(query, now, tz)
    \/ \E ok \in BOOLEAN : TierA(ok)
    \/ \E ok \in BOOLEAN : TierB(ok)
    \/ \E ok \in BOOLEAN : TierC(ok)
    \/ Return

NextQuery == QueryNext

SpecQuery == InitQuery /\ [][NextQuery]_vars

\* The recall service on fresh (empty) stores, asked a wide range of queries
\* at clock readings around the boundaries of the local day, week and month.
ParseNext ==
    \/ \E query \in ParseQueries, now \in ParseInstants, tz \in TzOffsets :
          ReceiveQuery(query, now, tz)
    \/ \E ok \in BOOLEAN : TierA(ok)
    \/ \E ok \in BOOLEAN : TierB(ok)
    \/ \E ok \in BOOLEAN : TierC(ok)
    \/ Return

NextParse == ParseNext

SpecParse == InitQuery /\ [][NextParse]_vars

\* One query asked twice in a row, at one clock reading, while nothing
\* writes to the stores.
InitTwice == LearnerInit /\ QueryInitStored /\ ServeInit /\ ThinkerInit

TwiceNext ==
    \/ \E query \in Queries, now \in Instants, tz \in TzOffsets :
          q_result = NoResult /\ q_first = None /\ ReceiveQuery(query, now, tz)
    \/ \E ok \in BOOLEAN : TierA(ok)
    \/ \E ok \in BOOLEAN : TierB(ok)
    \/ \E ok \in BOOLEAN : TierC(ok)
    \/ Return
    \/ RepeatQuery

NextTwice == TwiceNext

SpecTwice == InitTwice /\ [][NextTwice]_vars

\* The thinker and the system clock it reads.
ThinkNext ==
    \/ ClockTick
    \/ ClockStepBack
    \/ IntervalTick
    \/ \E outcome \in WindowOutcomes : ProcessTimeWindow(outcome)

NextThink == ThinkNext

SpecThink == Init /\ [][NextThink]_vars

\* The recall service and its clients.  The steps of a spawned task that
\* do not wait for the client are taken sooner or later: the runtime polls
\* every task that can go on, and the LLM call returns.
TaskStep(c) ==
    \/ \E outcome \in EngineOutcomes : ProcessQuery(c, outcome)
    \/ LockLlm(c)
    \/ \E ok \in BOOLEAN : GenerateText(c, ok)
    \/ \E ok \in BOOLEAN : WriteAll(c, ok)

ServeNext ==
    \/ \E c \in Conns, request \in Requests : Connect(c, request)
    \/ \E c \in Conns : \E n \in SegmentLengths(connections[c]) : ClientSend(c, n)
    \/ \E c \in Conns : Read(c)
    \/ \E c \in Conns : ReadError(c)
    \/ \E c \in Conns : TaskStep(c)

NextServe == ServeNext

SpecServe ==
    /\ Init
    /\ [][NextServe]_vars
    /\ \A c \in Conns : WF_vars(TaskStep(c))

\* ====================================================================
\* Properties of the event buffer (Spec)
\* ====================================================================

LastN(s, n) == SubSeq(s, Len(s) - n + 1, Len(s))

AllButLast(s) == SubSeq(s, 1, Len(s) - 1)

\* s is a subsequence of t (greedy matching, left to right).
RECURSIVE IsSubsequence(_, _)
IsSubsequence(s, t) ==
    IF s = <<>> THEN TRUE
    ELSE IF t = <<>> THEN FALSE
    ELSE IF Head(s) = Head(t) THEN IsSubsequence(Tail(s), Tail(t))
    ELSE IsSubsequence(s, Tail(t))

NoRepeats(s) == \A i, j \in 1..Len(s) : s[i] = s[j] => i = j

\* C1: whenever the buffer lock is not held, the buffer holds at most
\* MAX_BUFFER_SIZE events, under every interleaving of pushes and polls.
C1_BufferBounded ==
    lock = "free" => Len(event_buffer) <= MAX_BUFFER_SIZE

\* C1 witness: the lock is free, the buffer is full and an overflow
\* eviction has already happened.
C1_Witness ==
    /\ lock = "free"
    /\ Len(event_buffer) = MAX_BUFFER_SIZE
    /\ evicted # <<>>
    /\ polled # <<>>

\* C2: after more than MAX_BUFFER_SIZE completed pushes with no poll in
\* between, the buffer is exactly the last MAX_BUFFER_SIZE pushed events, in
\* push order.
C2_LastNInPushOrder ==
    (sincePoll > MAX_BUFFER_SIZE /\ ppc # "evict")
        => event_buffer = LastN(pushed, MAX_BUFFER_SIZE)

\* C2 witness: more than MAX_BUFFER_SIZE pushes have completed since the
\* last poll, and that run of pushes started after a poll.
C2_Witness ==
    /\ sincePoll > MAX_BUFFER_SIZE
    /\ ppc = "listen"
    /\ polled # <<>>

\* C3: a push always completes; on a buffer of fewer than MAX_BUFFER_SIZE
\* events nothing is removed, on a buffer of exactly MAX_BUFFER_SIZE events
\* exactly the head is removed, and the pushed event becomes the tail.
\* (In state ppc = "evict" the buffer is the buffer before the push followed
\* by the pushed event: the first conjunct.)
C3_PushStep ==
    /\ (ppc = "push_back" /\ ppc' = "evict")
         => /\ event_buffer' = event_buffer \o pevent
            /\ evicted' = evicted
    /\ (ppc = "evict" /\ ppc' = "listen")
         => LET before == AllButLast(event_buffer)
                e == event_buffer[Len(event_buffer)]
            IN  /\ e = pushed[Len(pushed)]
                /\ Len(before) <= MAX_BUFFER_SIZE
                /\ Len(before) < MAX_BUFFER_SIZE
                     => /\ event_buffer' = before \o <<e>>
                        /\ evicted' = evicted
                /\ Len(before) = MAX_BUFFER_SIZE
                     => /\ event_buffer' = Tail(before) \o <<e>>
                        /\ evicted' = evicted \o <<Head(before)>>

C3_PushNeverRejected ==
    [][ /\ C3_PushStep
        /\ ppc = "push_back" => ENABLED ProducerPushBack
        /\ ppc = "evict" => ENABLED ProducerEvict ]_vars

\* C3 witness: a push onto a full buffer has completed (its eviction is
\* recorded) and the pushed event is the tail.
C3_Witness ==
    /\ ppc = "listen"
    /\ evicted # <<>>
    /\ Len(event_buffer) = MAX_BUFFER_SIZE
    /\ event_buffer[Len(event_buffer)] = pushed[Len(pushed)]

\* C4: the events returned by successive polls form a subsequence of the
\* pushed events: each is the event that was built and pushed, none is
\* returned twice, and they come in push order.
C4_PolledIsSubsequence ==
    /\ IsSubsequence(polled, pushed)
    /\ NoRepeats(polled)
    /\ key_event # None => key_event[1] = polled[Len(polled)]

\* C4 witness: polls have returned events on both sides of an eviction, from
\* both the window branch and the fallback branch of the probe.
C4_Witness ==
    /\ Len(polled) >= 2
    /\ evicted # <<>>
    /\ polled[Len(polled)].seq > polled[Len(polled) - 1].seq + 1
    /\ \E i \in 1..Len(polled) : polled[i].app_context.app_name = "unknown"
    /\ \E i \in 1..Len(polled) : polled[i].app_context.app_name # "unknown"

\* C5: pop_front in poll never blocks; on an empty buffer it returns None
\* and leaves the buffer empty, on a non-empty buffer it removes and returns
\* exactly the head.
C5_PollStep ==
    (cpc = "pop_front" /\ cpc' # "pop_front")
        => IF event_buffer = <<>>
           THEN key_event' = None /\ event_buffer' = <<>> /\ polled' = polled
           ELSE /\ key_event' = Some(Head(event_buffer))
                /\ event_buffer' = Tail(event_buffer)
                /\ polled' = Append(polled, Head(event_buffer))

C5_PollEmptyOrHead ==
    [][ /\ C5_PollStep
        /\ cpc = "pop_front" => ENABLED PollPopFront
        /\ (cpc = "poll_lock" /\ lock = "free") => ENABLED PollLock ]_vars

\* C5 witness: a poll has just found the buffer empty (the loop is back in
\* select!) after earlier polls returned events.
C5_Witness ==
    /\ cpc = "select"
    /\ polled # <<>>
    /\ event_buffer = <<>>
    /\ key_event = None

\* C6: push and poll are mutually exclusive critical sections: producer and
\* consumer are never inside the buffer together, the mutex names the one
\* that is, and the consumer never sees MAX_BUFFER_SIZE + 1 events.
C6_MutualExclusion ==
    /\ ~(ppc \in {"push_back", "evict"} /\ cpc = "pop_front")
    /\ ppc \in {"push_back", "evict"} => lock = "producer"
    /\ cpc = "pop_front" => lock = "consumer"
    /\ cpc = "pop_front" => Len(event_buffer) <= MAX_BUFFER_SIZE

\* C6 witness: the buffer holds MAX_BUFFER_SIZE + 1 events inside the
\* producer's critical section while the consumer waits for the mutex.
C6_Witness ==
    /\ ppc = "evict"
    /\ Len(event_buffer) = MAX_BUFFER_SIZE + 1
    /\ cpc = "poll_lock"

\* C7: the consumer holds the lock only for one pop_front and not while
\* store_event runs, the producer holds it only for insert-and-evict (the
\* probe runs before the lock is taken), so the producer waiting for the
\* lock can take it whenever the consumer is not inside pop_front, in
\* particular during store_event.
C7_ProducerNotBlockedByStore ==
    /\ lock = "consumer" <=> cpc = "pop_front"
    /\ lock = "producer" <=> ppc \in {"push_back", "evict"}
    /\ cpc = "store" => lock # "consumer"
    /\ (ppc = "lock" /\ cpc # "pop_front") => ENABLED ProducerLock
    /\ (ppc = "listen" /\ Len(pushed) < MaxPushes)
          => ENABLED (\E key \in Keys, probe \in ProbeResults : KeyPress(key, probe))

\* C7 witness: store_event is in progress and a complete push (lock,
\* push_back, evict) is taking place meanwhile.
C7_Witness ==
    /\ cpc = "store"
    /\ ppc = "evict"
    /\ lock = "producer"

\* ====================================================================
\* Properties of process_query (SpecQuery)
\* ====================================================================

\* The tiers process_query may call, in order, for this engine.
ExpectedTiers == IF event_db THEN <<"A", "B", "C">> ELSE <<"A", "C">>

AllCallsOk == \A i \in 1..Len(q_calls) : q_calls[i].ok

\* C8: process_query never fails: whichever store calls fail, it returns a
\* QueryResult; a failed Tier A call is followed by the next tier, and when
\* every call made has failed the result is Empty.
C8_ResolveNeverFails ==
    q_pc = "done" =>
        /\ q_result.variant \in {"Summaries", "Events", "Empty"}
        /\ ~q_calls[1].ok => Len(q_calls) > 1
        /\ (\A i \in 1..Len(q_calls) : ~q_calls[i].ok) => q_result.variant = "Empty"

\* C9: the tiers are called in the order A, B, C, B only with an event
\* database; no tier is called after one that returned rows; the rows of the
\* first non-empty tier are the result (Summaries for A and C, Events for
\* B); Empty is returned only after every tier returned no rows.
C9_TiersInOrder ==
    /\ Len(q_calls) <= Len(ExpectedTiers)
    /\ \A i \in 1..Len(q_calls) : q_calls[i].tier = ExpectedTiers[i]
    /\ \A i \in 1..(Len(q_calls) - 1) : q_calls[i].ok /\ q_calls[i].rows = <<>>
    /\ q_pc = "done" => q_calls # <<>>
    /\ (q_pc = "done" /\ AllCallsOk) =>
          LET last == q_calls[Len(q_calls)] IN
          IF last.rows # <<>>
          THEN /\ q_result.variant = IF last.tier = "B" THEN "Events" ELSE "Summaries"
               /\ last.tier = "B" => q_result.events = last.rows
               /\ last.tier # "B" => q_result.summaries = last.rows
          ELSE /\ q_result.variant = "Empty"
               /\ Len(q_calls) = Len(ExpectedTiers)
    /\ q_result.variant = "Empty" =>
          /\ Len(q_calls) = Len(ExpectedTiers)
          /\ \A i \in 1..Len(q_calls) : q_calls[i].ok /\ q_calls[i].rows = <<>>
    /\ q_pc \in {"tierB", "tierC"} => q_result.variant = "none"

\* C9 witness: with an event database, Tier A and Tier B returned nothing
\* and the content search of Tier C produced the Summaries result.
C9_Witness ==
    /\ q_pc = "done"
    /\ event_db
    /\ Len(q_calls) = 3
    /\ q_result.variant = "Summaries"
    /\ user_events # {}

\* The search term occurs, case-insensitively, in the description or in a tag.
TermOccursIn(row, term) ==
    \/ contains(to_lowercase(row.description), to_lowercase(term))
    \/ \E i \in 1..Len(row.tags) : contains(to_lowercase(row.tags[i]), to_lowercase(term))

\* C10: when the content search of Tier C runs, every stored summary whose
\* description or tags contain the sanitized term (and that passes the app
\* filter) is in the Summaries result, whatever its time range.
C10_ContentSearchFindsDescriptionAndTags ==
    [][ (q_pc = "tierC" /\ q_pc' = "done" /\ q_calls'[Len(q_calls')].ok)
          => \A row \in user_summaries :
                ( /\ TermOccursIn(row, clean_query_of[q_query])
                  /\ q_app_filter # None =>
                        SummaryMentionsApp(parse_summary_from_row(row), q_app_filter[1]) )
                => /\ q_result'.variant = "Summaries"
                   /\ \E i \in 1..Len(q_result'.summaries) :
                        q_result'.summaries[i] = parse_summary_from_row(row) ]_vars

\* The filter occurs, case-insensitively, in the text.
FilterOccursIn(text, filter) == contains(to_lowercase(text), to_lowercase(filter))

\* The summary names the filter in its description, a tag or the application
\* name of one of its events.
SummaryPassesFilter(summary, filter) ==
    \/ FilterOccursIn(summary.description, filter)
    \/ \E i \in 1..Len(summary.tags) : FilterOccursIn(summary.tags[i], filter)
    \/ \E i \in 1..Len(summary.events) :
          FilterOccursIn(summary.events[i].app_context.app_name, filter)

\* The row's time range overlaps the window [start, end].
OverlapsWindow(row, timeframe) ==
    \/ (timeframe.start <= row.start_time /\ row.start_time <= timeframe.end)
    \/ (timeframe.start <= row.end_time /\ row.end_time <= timeframe.end)
    \/ (row.start_time <= timeframe.start /\ timeframe.end <= row.end_time)

\* The values of a sequence.
Range(s) == {s[i] : i \in 1..Len(s)}

\* C11: with an app filter, every summary of a Summaries result names the
\* filter (case-insensitively) in its description, a tag or an event's
\* application name, and every event of an Events result names it in its
\* application name; without a filter a tier returns every row of its
\* selection (window overlap for A, window for B, description match for C).
C11_AppFilterApplied ==
    /\ [](q_app_filter # None =>
            /\ q_result.variant = "Summaries" =>
                  \A i \in 1..Len(q_result.summaries) :
                      SummaryPassesFilter(q_result.summaries[i], q_app_filter[1])
            /\ q_result.variant = "Events" =>
                  \A i \in 1..Len(q_result.events) :
                      FilterOccursIn(q_result.events[i].app_context.app_name,
                                     q_app_filter[1]))
    /\ [][ (q_app_filter = None /\ Len(q_calls') = Len(q_calls) + 1
              /\ q_calls'[Len(q_calls')].ok)
           => LET call == q_calls'[Len(q_calls')] IN
              /\ call.tier = "A" =>
                    \A row \in user_summaries :
                        OverlapsWindow(row, q_timeframe)
                            => parse_summary_from_row(row) \in Range(call.rows)
              /\ call.tier = "B" =>
                    \A row \in user_events :
                        (q_timeframe.start <= row.timestamp
                            /\ row.timestamp <= q_timeframe.end)
                            => row \in Range(call.rows)
              /\ call.tier = "C" =>
                    \A row \in user_summaries :
                        FilterOccursIn(row.description, clean_query_of[q_query])
                            => parse_summary_from_row(row) \in Range(call.rows) ]_vars

\* C11 witness: a filter was extracted, an event of another application lies
\* in the window, and the Events result holds the matching event only.
C11_Witness ==
    /\ q_pc = "done"
    /\ q_app_filter = Some("chrome")
    /\ q_result.variant = "Events"
    /\ Len(q_result.events) = 1
    /\ \E row \in user_events :
          /\ q_timeframe.start <= row.timestamp /\ row.timestamp <= q_timeframe.end
          /\ ~FilterOccursIn(row.app_context.app_name, "chrome")

\* A Summaries result of Tier A under a filter.
C11_WitnessSummaries ==
    /\ q_pc = "done"
    /\ q_app_filter # None
    /\ q_result.variant = "Summaries"
    /\ Len(q_calls) = 1

\* A Summaries result of the content search of Tier C under a filter.
C11_WitnessSearch ==
    /\ q_pc = "done"
    /\ q_app_filter # None
    /\ q_result.variant = "Summaries"
    /\ q_calls[Len(q_calls)].tier = "C"

\* ====================================================================
\* Properties of parse_timeframe and extract_app_name (SpecParse)
\* ====================================================================

\* process_query has computed timeframe and app_filter for q_query.
Parsed == q_pc # "idle" \/ q_result # NoResult

\* The time phrases in their precedence, each with the description it gives.
TimePhrases ==
    << [phrases |-> {"today"}, description |-> "today"],
       [phrases |-> {"yesterday"}, description |-> "yesterday"],
       [phrases |-> {"this week"}, description |-> "this week"],
       [phrases |-> {"last week"}, description |-> "last week"],
       [phrases |-> {"this month"}, description |-> "this month"],
       [phrases |-> {"last hour", "past hour"}, description |-> "the last hour"],
       [phrases |-> {"30 min", "half hour", "half an hour"},
        description |-> "the last 30 minutes"] >>

\* The positions of TimePhrases with a phrase occurring in the query,
\* whatever the case of its letters.
PhrasesIn(query) ==
    {k \in 1..Len(TimePhrases) :
        \E phrase \in TimePhrases[k].phrases : contains(to_lowercase(query), phrase)}

\* PhrasesIn on the queries of the model, computed once.
phrases_in == [query \in AllQueries |-> PhrasesIn(query)]

\* The instant at which the local day of instant t began.
LocalMidnight(t, tz) == ((t + tz) \div MinutesPerDay) * MinutesPerDay - tz

\* C12: the timeframe is decided by the phrase earliest in the precedence
\* today, yesterday, this week, last week, this month, last/past hour,
\* 30 min / half hour / half an hour, matched case-insensitively, wherever
\* the phrases stand in the query; with no phrase it is the default.
C12_PhrasePrecedence ==
    Parsed =>
        LET found == phrases_in[q_query] IN
        IF found = {}
        THEN q_timeframe.description = "the last 24 hours"
        ELSE LET first == CHOOSE k \in found : \A j \in found : k <= j
             IN  q_timeframe.description = TimePhrases[first].description

\* C12 witness: "today" stands after "yesterday" in the query and decides.
C12_Witness ==
    /\ Parsed
    /\ q_query = "yesterday and today"
    /\ q_timeframe.description = "today"

\* C13: for "today", start is the instant of local midnight of the current
\* local day and end is now, so end - start is the time elapsed since local
\* midnight.
C13_TodayStartsAtLocalMidnight ==
    (Parsed /\ q_timeframe.description = "today") =>
        /\ q_timeframe.start = LocalMidnight(q_now, q_tz)
        /\ q_timeframe.end = q_now
        /\ q_timeframe.end - q_timeframe.start = (q_now + q_tz) % MinutesPerDay

\* C14: for "yesterday", the interval is exactly 24 hours long and ends at
\* the instant of today's local midnight.
C14_YesterdayEndsAtLocalMidnight ==
    (Parsed /\ q_timeframe.description = "yesterday") =>
        /\ q_timeframe.end - q_timeframe.start = 24 * MinutesPerHour
        /\ q_timeframe.end = LocalMidnight(q_now, q_tz)

\* The descriptions a Timeframe can carry.
Descriptions ==
    {TimePhrases[k].description : k \in 1..Len(TimePhrases)} \cup {"the last 24 hours"}

\* A preposition pattern of the app occurs in the query.
PatternOccurs(query, app) ==
    \E prep \in {"in", "on", "using", "with", "at"}, ending \in {" ", ".", "?"} :
        contains(to_lowercase(query), " " \o prep \o " " \o app \o ending)

\* The positions of known_apps with a pattern in the query, computed once
\* for the queries of the model.
matching_apps ==
    [query \in AllQueries |->
        {i \in 1..Len(known_apps) : PatternOccurs(query, known_apps[i])}]

\* C15: every query yields a Timeframe; a query without a time phrase
\* (such as "" or "banana") yields start = now - 24 hours, end = now,
\* description "the last 24 hours"; without an app pattern the filter is absent.
C15_DefaultTimeframe ==
    Parsed =>
        /\ q_timeframe.description \in Descriptions
        /\ q_timeframe.start \in Int /\ q_timeframe.end \in Int
        /\ phrases_in[q_query] = {} =>
              q_timeframe = [start |-> q_now - 24 * 60, end |-> q_now,
                             description |-> "the last 24 hours"]
        /\ matching_apps[q_query] = {} => q_app_filter = None
        /\ q_query \in {"", "banana"} =>
              /\ q_timeframe.description = "the last 24 hours"
              /\ q_app_filter = None

\* C15 witness: the empty query was resolved to the default timeframe.
C15_Witness ==
    /\ q_pc = "done"
    /\ q_query = ""
    /\ q_timeframe = Timeframe(q_now - 1440, q_now, "the last 24 hours")
    /\ q_app_filter = None

\* C16: the filter is the first name of the known-app list with a
\* preposition pattern in the lower-cased query, absent when there is none;
\* list order decides between several matching apps.
C16_FirstKnownApp ==
    Parsed =>
        LET matching == matching_apps[q_query]
        IN  /\ matching = {} <=> q_app_filter = None
            /\ matching # {} =>
                  \E i \in matching :
                      /\ q_app_filter = Some(known_apps[i])
                      /\ \A j \in matching : i <= j
            /\ q_query = "what did I do on vscode today" => q_app_filter = Some("vscode")
            /\ q_query = "what did I do today" => q_app_filter = None

\* C16 witness: slack stands first in the query, chrome first in the list.
C16_Witness ==
    /\ Parsed
    /\ q_query = "work on Slack in chrome now"
    /\ \E i \in matching_apps[q_query] : known_apps[i] = "slack"
    /\ q_app_filter = Some("chrome")

\* ====================================================================
\* Properties of the QueryResult (SpecQuery)
\* ====================================================================

\* C17: a QueryResult of any variant carries the query text as received
\* and the timeframe and app filter computed from it at the start of the
\* call; on empty stores every call that does not fail returns Empty, for
\* "anything" with the description "the last 24 hours".
C17_ResultCarriesQueryContext ==
    /\ [](q_result.variant \in {"Summaries", "Events", "Empty"} =>
            /\ q_result.query = q_query
            /\ q_result.timeframe = timeframe_of[q_query, q_now, q_tz]
            /\ q_result.app_filter = app_filter_of[q_query])
    /\ [][ (q_pc # "done" /\ q_pc' = "done" /\ q_result'.variant # "Err"
              /\ user_summaries = {} /\ user_events = {})
           => /\ q_result'.variant = "Empty"
              /\ q_query = "anything" =>
                    q_result'.timeframe.description = "the last 24 hours" ]_vars

\* C17 witness: "anything" was resolved against empty stores.
C17_Witness ==
    /\ q_pc = "done"
    /\ q_query = "anything"
    /\ user_summaries = {} /\ user_events = {}
    /\ event_db
    /\ q_result = [variant |-> "Empty", query |-> "anything", app_filter |-> None,
                   timeframe |-> [start |-> q_now - 1440, end |-> q_now,
                                  description |-> "the last 24 hours"]]

\* A Summaries result for a query that sanitizing would change.
C17_WitnessSummaries ==
    /\ q_result.variant = "Summaries"
    /\ q_result.query = "go on VSCode."

\* ====================================================================
\* Properties of repeated calls (SpecTwice)
\* ====================================================================

ActiveModifiers ==
    {name \in {"Shift", "Ctrl", "Alt", "Meta"} :
        \/ name = "Shift" /\ shift_pressed
        \/ name = "Ctrl" /\ ctrl_pressed
        \/ name = "Alt" /\ alt_pressed
        \/ name = "Meta" /\ meta_pressed}

\* The step delivers an input event to the callback and the callback returns
\* without building a keystroke.
DeliveredWithoutKeystroke ==
    /\ ppc = "listen" /\ ppc' = "listen"
    /\ rdev_event' # None
    /\ rdev_event' # rdev_event \/ held' # held \/ modifier_vars' # modifier_vars

\* C19: a key-down of a non-modifier key builds one event of kind
\* "keystroke" holding the key's string form, the modifiers active at that
\* moment in the order Shift, Ctrl, Alt, Meta, and the context of the window
\* probed in that step; that event is enqueued exactly once, at the tail.
C19_KeystrokeEvent ==
    /\ [][ (ppc = "listen" /\ ppc' # "listen") =>
            /\ rdev_event' # None
            /\ rdev_event'[1].event_type = "KeyPress"
            /\ rdev_event'[1].key \notin ModifierKeys
            /\ active_window' # None
            /\ pevent' # None
            /\ pevent'[1].event = "keystroke"
            /\ pevent'[1].key = rdev_event'[1].key
            /\ pevent'[1].modifiers =
                  SelectSeq(<<"Shift", "Ctrl", "Alt", "Meta">>,
                            LAMBDA name : name \in ActiveModifiers)
            /\ pevent'[1].app_context = app_context_of[active_window'[1]] ]_vars
    /\ [][ (rdev_event' # rdev_event /\ rdev_event'[1].event_type = "KeyPress"
              /\ rdev_event'[1].key \notin ModifierKeys)
           => (ppc' = "lock" /\ pevent' # None) ]_vars
    /\ [][ pevent # None =>
            \/ UNCHANGED <<pevent, pushed, event_buffer>>
            \/ /\ pevent' = None
               /\ pushed' = Append(pushed, pevent[1])
               /\ event_buffer' = Append(event_buffer, pevent[1]) ]_vars
    /\ [][ pushed' # pushed => pevent # None ]_vars
    /\ [](NoRepeats(pushed) /\ (pevent # None => \A i \in 1..Len(pushed) : pushed[i] # pevent[1]))

\* C19 witness: a key went down while all four modifiers were held and its
\* event is in the buffer.
C19_Witness ==
    /\ ppc = "listen"
    /\ Len(event_buffer) = 1
    /\ event_buffer[1].event = "keystroke"
    /\ event_buffer[1].key = "KeyA"
    /\ event_buffer[1].modifiers = <<"Shift", "Ctrl", "Alt", "Meta">>
    /\ event_buffer[1].app_context.app_name = "Code"

\* C20: the buffer receives only events built on the key-down of a
\* non-modifier key; a key-down or key-up of a modifier key sets or clears
\* the flag of its modifier and enqueues nothing; a key-up of another key
\* and any other input event leave the buffer and the modifier state as
\* they are.
C20_OnlyKeyDownChangesBuffer ==
    /\ [][ (pevent' # pevent /\ pevent' # None) =>
            /\ rdev_event'[1].event_type = "KeyPress"
            /\ rdev_event'[1].key \notin ModifierKeys ]_vars
    /\ [][ event_buffer' # event_buffer =>
            \/ pevent # None /\ event_buffer' = Append(event_buffer, pevent[1])
            \/ ppc = "evict" /\ event_buffer' = Tail(event_buffer)
            \/ cpc = "pop_front" /\ event_buffer' = Tail(event_buffer) ]_vars
    /\ [][ DeliveredWithoutKeystroke =>
            /\ UNCHANGED <<event_buffer, pushed, pevent, lock>>
            /\ LET e == rdev_event'[1]
                   down == e.event_type = "KeyPress"
               IN  IF e.event_type \in {"KeyPress", "KeyRelease"}
                      /\ e.key \in ModifierKeys
                   THEN /\ shift_pressed' = IF e.key \in {"ShiftLeft", "ShiftRight"}
                                            THEN down ELSE shift_pressed
                        /\ ctrl_pressed' = IF e.key \in {"ControlLeft", "ControlRight"}
                                           THEN down ELSE ctrl_pressed
                        /\ alt_pressed' = IF e.key \in {"Alt", "AltGr"}
                                          THEN down ELSE alt_pressed
                        /\ meta_pressed' = IF e.key \in {"MetaLeft", "MetaRight"}
                                           THEN down ELSE meta_pressed
                   ELSE UNCHANGED modifier_vars ]_vars

\* C20 witness: the non-modifier key was released while Shift stayed held;
\* its keystroke is in the buffer and the Shift flag is still set.
C20_Witness ==
    /\ rdev_event = Some(RdevEvent("KeyRelease", "KeyA"))
    /\ shift_pressed
    /\ held \cap ModifierKeys # {}
    /\ Len(event_buffer) = 1
    /\ event_buffer[1].modifiers = <<"Shift">>

\* The modifier names of which a key is physically down.
HeldModifiers ==
    {name \in {"Shift", "Ctrl", "Alt", "Meta"} :
        \/ name = "Shift" /\ held \cap {"ShiftLeft", "ShiftRight"} # {}
        \/ name = "Ctrl" /\ held \cap {"ControlLeft", "ControlRight"} # {}
        \/ name = "Alt" /\ held \cap {"Alt", "AltGr"} # {}
        \/ name = "Meta" /\ held \cap {"MetaLeft", "MetaRight"} # {}}

\* C21: a modifier name is in the modifier list of a keystroke exactly when
\* a key of that modifier is down at the key-down; the release of one
\* modifier key does not mark as released another key that is still held.
C21_ModifiersMatchHeldKeys ==
    pevent # None => Range(pevent[1].modifiers) = HeldModifiers

\* ====================================================================
\* Properties of the capture session (Spec, SpecSession)
\* ====================================================================

\* The listener has reported a fatal error.
ListenFailed == "listen" \in stderr

\* A step of the poll loop of main.
ConsumerStep ==
    \/ PollTimerTick
    \/ PollLock
    \/ PollPopFront
    \/ \E ok \in BOOLEAN : StoreEvent(ok)

\* C22: a fatal error of the listener is logged and ends the capture
\* thread, outside the mutex; afterwards no event is built or pushed, the
\* poll loop can always take its next step, each poll returns the head of
\* the buffer or, on the empty buffer, None, and the empty buffer stays
\* empty.
C22_ListenErrorStopsCapture ==
    /\ [](ppc = "stopped" <=> ListenFailed)
    /\ [](ListenFailed => (pevent = None /\ lock # "producer"))
    /\ [][ ListenFailed => UNCHANGED <<pushed, pevent, ppc>> ]_vars
    /\ [](ListenFailed => ENABLED ConsumerStep)
    /\ [][ (ListenFailed /\ cpc = "pop_front" /\ cpc' # "pop_front") =>
            IF event_buffer = <<>>
            THEN key_event' = None /\ event_buffer' = <<>> /\ cpc' = "select"
            ELSE /\ key_event' = Some(Head(event_buffer))
                 /\ event_buffer' = Tail(event_buffer)
                 /\ polled' = Append(polled, Head(event_buffer)) ]_vars
    /\ [][ (ListenFailed /\ event_buffer = <<>>) => event_buffer' = <<>> ]_vars

\* C22 witness: the listener has failed with two events buffered and a poll
\* is about to take the first of them.
C22_Witness ==
    /\ ListenFailed
    /\ ppc = "stopped"
    /\ Len(event_buffer) = 2
    /\ cpc = "pop_front"
    /\ lock = "consumer"

\* ====================================================================
\* Properties of the active-window probe (Spec, SpecProbe)
\* ====================================================================

\* The probe result of a failed get_active_window().
FailedProbe == [ok |-> FALSE, window |-> [title |-> "", app_name |-> ""]]

SentinelContext == [app_name |-> "unknown", window_title |-> "unknown", url |-> None]

\* The key-down of a key that is not a modifier has just been delivered.
KeystrokeStep == pevent = None /\ pevent' # None

\* C23: a failed probe of the active window neither prevents nor delays the
\* capture: the key-down is accepted whenever it would be with a window,
\* the event is built in the same step with the sentinel context, nothing
\* is logged, the thread goes on to the push, and the push enqueues that
\* very event at the tail of the buffer.
C23_ProbeFailureStillCaptures ==
    /\ [](\A key \in Keys :
            ENABLED KeyPress(key, FailedProbe)
                <=> \E probe \in ProbeResults :
                       probe.ok /\ ENABLED KeyPress(key, probe))
    /\ [][ (KeystrokeStep /\ ~active_window'[1].ok) =>
            /\ pevent'[1].app_context = SentinelContext
            /\ pevent'[1].key = rdev_event'[1].key
            /\ ppc' = "lock"
            /\ stderr' = stderr ]_vars
    /\ [][ (pevent # None /\ pevent' = None) =>
            /\ pushed' = Append(pushed, pevent[1])
            /\ event_buffer' # <<>>
            /\ event_buffer'[Len(event_buffer')] = pevent[1]
            /\ ppc' = "evict"
            /\ stderr' = stderr ]_vars

\* C23 witness: an event captured under a failed probe is in the buffer
\* with the sentinel context, and the listener has not failed.
C23_Witness ==
    /\ event_buffer # <<>>
    /\ event_buffer[Len(event_buffer)].app_context = SentinelContext
    /\ active_window = Some(FailedProbe)
    /\ ppc = "listen"
    /\ stderr = {}

\* The browser names of the list, with the alias the code adds.
BrowserNames == {"chrome", "firefox", "safari", "edge", "opera", "brave", "zen"}

\* The probed application name contains a browser name, whatever the case.
ProbedAppIsBrowser(window) ==
    \E name \in BrowserNames : contains(to_lowercase(window.app_name), name)

probed_app_is_browser == [w \in Windows \cup ProbeWindows |-> ProbedAppIsBrowser(w)]

\* C24: the context of a built event carries a URL only if the probe
\* succeeded and the probed application name contains a browser name.
C24_UrlOnlyForBrowsers ==
    (pevent # None /\ pevent[1].app_context.url # None) =>
        /\ active_window[1].ok
        /\ probed_app_is_browser[active_window[1].window]

\* The URL of a browser window title by the patterns (a), (b), (c).
PatternUrl(title) ==
    IF starts_with(title, "http://") \/ starts_with(title, "https://")
    THEN IF find(title, " ") = None
         THEN Some(title)
         ELSE Some(SubSeq(title, 1, find(title, " ")[1]))
    ELSE IF find(title, " - ") # None
    THEN LET prefix == SubSeq(title, 1, find(title, " - ")[1])
         IN  IF \/ starts_with(prefix, "http")
                \/ contains(prefix, "www.")
                \/ \E tld \in {".com", ".org", ".net", ".io", ".app", ".dev"} :
                      contains(prefix, tld)
             THEN Some(prefix)
             ELSE None
    ELSE None

pattern_url == [w \in Windows \cup ProbeWindows |-> PatternUrl(w.title)]

\* C25: for a window of a browser (one without the monkeytype title), the
\* URL of the built event is the one the patterns (a), (b), (c) give, tried
\* in that order.
C25_UrlPatternsInOrder ==
    (/\ pevent # None
     /\ active_window[1].ok
     /\ probed_app_is_browser[active_window[1].window]
     /\ ~contains(active_window[1].window.title, "monkeytype")) =>
        pevent[1].app_context.url = pattern_url[active_window[1].window]

\* ====================================================================
\* Properties of the recall service (SpecServe)
\* ====================================================================

Responses == {"listing", "no_data", "error"}

\* C26: on a connection the service reads at most once and writes at most
\* once; a connection whose read succeeded is sooner or later closed, with
\* exactly one response written, which is a listing, the no-data message or
\* the error message and is all the client has received unless the write
\* failed; on a closed connection nothing more is read or written.
C26_OneRequestOneResponse ==
    /\ [](\A c \in Conns :
            /\ connections[c].reads <= 1
            /\ connections[c].writes <= 1
            /\ connections[c].writes = 1 => connections[c].reads = 1
            /\ Len(connections[c].received) <= connections[c].writes
            /\ (connections[c].pc = "closed" /\ connections[c].reads = 1) =>
                  /\ connections[c].writes = 1
                  /\ connections[c].response # None
                  /\ connections[c].response[1] \in Responses
                  /\ connections[c].received \in {<<>>, connections[c].response})
    /\ [][ \A c \in Conns :
             connections[c].pc = "closed" => connections'[c] = connections[c] ]_vars
    /\ \A c \in Conns :
          (connections[c].reads = 1) ~>
              (connections[c].pc = "closed" /\ connections[c].writes = 1)

\* C26 witness: both connections are closed after one read and one write
\* each, one client has a listing and the other the no-data message.
C26_Witness ==
    /\ \A c \in Conns :
          /\ connections[c].pc = "closed"
          /\ connections[c].reads = 1
          /\ connections[c].writes = 1
    /\ connections[1].received = <<"listing">>
    /\ connections[2].received = <<"no_data">>

\* C27: the query handed to the engine is the complete text the client
\* sent on the connection, trimmed.
C27_QueryIsWholeRequest ==
    \A c \in Conns :
        connections[c].query # None =>
            connections[c].query[1] = trim(connections[c].request)

\* C29: a query that begins with the routing token Fuzzy: is resolved by
\* the content search alone, no windowed summaries or events are fetched,
\* and the query text of the result does not hold the token.
C29_FuzzyForcesContentSearch ==
    (q_pc = "done" /\ starts_with(q_query, "Fuzzy:")) =>
        /\ \A i \in 1..Len(q_calls) : q_calls[i].tier = "C"
        /\ q_result.variant # "Err" => ~contains(q_result.query, "Fuzzy:")

\* A sequence of events is in the order of its timestamps.
SortedByTimestamp(events) ==
    \A i, j \in 1..Len(events) : i < j => events[i].timestamp <= events[j].timestamp

\* C30: the events in the buffer, head to tail, and the events returned
\* by the polls, first to last, are in the order of their timestamps.
C30_TimestampsNonDecreasing ==
    /\ SortedByTimestamp(event_buffer)
    /\ SortedByTimestamp(polled)

\* C28: the handling of a request never waits for a lock that the handling
\* of another request holds.
C28_NoWaitingOnOtherRequests ==
    \A c \in Conns :
        connections[c].pc = "lock" => llm_client = 0

\* ====================================================================
\* Properties of the event store under the learner (SpecStartup, Spec)
\* ====================================================================

\* C31: an event for which store_event succeeded is returned by
\* get_events_in_timeframe for the window that is its timestamp, whatever
\* components have been started since.
C31_StartKeepsStoredEvents ==
    \A i \in 1..Len(stored) :
        stored[i].ok =>
            stored[i].event \in
                Range(get_events_in_timeframe(Range(db_events),
                                              stored[i].event.timestamp,
                                              stored[i].event.timestamp))

\* C33: the events pushed so far are the events polled, the events evicted
\* and the events in the buffer, each counted once; an event leaves the
\* buffer only from the head, and then it is recorded as polled or as
\* evicted.
C33_EventsConserved ==
    /\ [](Len(pushed) = Len(polled) + Len(evicted) + Len(event_buffer))
    /\ [](Range(pushed) = Range(polled) \cup Range(evicted) \cup Range(event_buffer))
    /\ [](Cardinality(Range(pushed)) = Len(pushed))
    /\ [][ event_buffer' # event_buffer =>
            \/ /\ event_buffer' = Append(event_buffer, pushed'[Len(pushed')])
               /\ pushed' = Append(pushed, pevent[1])
               /\ UNCHANGED <<polled, evicted>>
            \/ /\ event_buffer # <<>>
               /\ event_buffer' = Tail(event_buffer)
               /\ UNCHANGED pushed
               /\ \/ polled' = Append(polled, Head(event_buffer)) /\ UNCHANGED evicted
                  \/ evicted' = Append(evicted, Head(event_buffer)) /\ UNCHANGED polled
          ]_vars

\* C33 witness: of five events pushed, some were polled, one was evicted
\* and the others are in the buffer.
C33_Witness ==
    /\ Len(pushed) = MaxPushes
    /\ polled # <<>>
    /\ evicted # <<>>
    /\ event_buffer # <<>>

\* The events given to store_event so far, in order.
StoredEvents == [i \in 1..Len(stored) |-> stored[i].event]

\* The events for which store_event returned Ok, in order.
StoredOk == SelectSeq(stored, LAMBDA call : call.ok)

\* A store_event call has just returned Err.
StoreFailedStep ==
    /\ Len(stored') = Len(stored) + 1
    /\ ~stored'[Len(stored')].ok

\* C35: every event returned by poll is given to store_event once, in poll
\* order, and the rows written are those of the calls that succeeded; a
\* failed call is logged, writes no row, leaves the buffer as it is and is
\* followed by the next poll; the poll loop never ends.
C35_StoreFailureDropsEvent ==
    /\ [](StoredEvents \o key_event = polled)
    /\ [](Cardinality(Range(StoredEvents)) = Len(stored))
    /\ [](db_events = [i \in 1..Len(StoredOk) |-> StoredOk[i].event])
    /\ []("store" \in stderr <=> \E i \in 1..Len(stored) : ~stored[i].ok)
    /\ [](cpc \in {"select", "poll_lock", "pop_front", "store"})
    /\ [][ StoreFailedStep =>
            /\ stored'[Len(stored')].event = key_event[1]
            /\ "store" \in stderr'
            /\ UNCHANGED <<db_events, event_buffer, polled>>
            /\ key_event' = None
            /\ cpc' = "poll_lock" ]_vars

\* C35 witness: a store failed, the next event of the same drain was
\* polled and stored, and the loop is polling again.
C35_Witness ==
    /\ Len(stored) >= 2
    /\ ~stored[Len(stored) - 1].ok
    /\ stored[Len(stored)].ok
    /\ db_events = <<stored[Len(stored)].event>>
    /\ "store" \in stderr
    /\ cpc = "poll_lock"

\* C36: every pushed event is sooner or later evicted or given to
\* store_event, and the buffer becomes empty and stays empty once the
\* pushes have ended.
C36_BufferDrains ==
    /\ \A n \in 1..MaxDrained :
          (Len(pushed) >= n) ~>
              (/\ Len(pushed) >= n
               /\ \/ pushed[n] \in Range(evicted)
                  \/ pushed[n] \in Range(StoredEvents))
    /\ <>[](event_buffer = <<>> /\ key_event = None)

\* C36 witness: the pushes have ended, one event was evicted, the others
\* were given to store_event, and the buffer is empty.
C36_Witness ==
    /\ Len(pushed) = MaxDrained
    /\ evicted # <<>>
    /\ Len(stored) + Len(evicted) = Len(pushed)
    /\ event_buffer = <<>>
    /\ cpc = "select"

\* ====================================================================
\* Further properties of process_query (SpecParse, SpecQuery)
\* ====================================================================

\* C32: the timeframe of a query does not start after it ends.
C32_StartNotAfterEnd ==
    q_pc # "idle" => q_timeframe.start <= q_timeframe.end

\* C34: a Summaries result carries at least one summary and an Events
\* result at least one event; a call whose store calls all succeeded and
\* found nothing returns Empty, and Empty is returned only then, after the
\* content search.
C34_NoEmptyListing ==
    /\ q_result.variant = "Summaries" => q_result.summaries # <<>>
    /\ q_result.variant = "Events" => q_result.events # <<>>
    /\ (q_pc = "done" /\ \A i \in 1..Len(q_calls) :
                            q_calls[i].ok /\ q_calls[i].rows = <<>>)
          => q_result.variant = "Empty"
    /\ q_result.variant = "Empty" =>
          /\ \A i \in 1..Len(q_calls) : q_calls[i].ok /\ q_calls[i].rows = <<>>
          /\ q_calls[Len(q_calls)].tier = "C"

\* C34 witness: the stores hold rows, the three tiers were asked and none
\* found anything for this query: the result is Empty.
C34_Witness ==
    /\ q_pc = "done"
    /\ user_summaries # {}
    /\ user_events # {}
    /\ Len(q_calls) = 3
    /\ q_result.variant = "Empty"

\* C34 witness: a Summaries result of the content search.
C34_WitnessSummaries ==
    /\ q_result.variant = "Summaries"
    /\ q_calls[Len(q_calls)].tier = "C"

\* ====================================================================
\* Further properties of the recall service (SpecServe)
\* ====================================================================

\* The handling of a connection has ended in a failure: the read failed,
\* the engine failed, or the write failed.
Failed(conn) ==
    /\ conn.pc = "closed"
    /\ \/ conn.reads = 0
       \/ conn.response = Some("error")
       \/ conn.received = <<>>

\* C37: a step in the handling of one connection, a failure or not, changes
\* no other connection; the LLM mutex is held only by a task inside the LLM
\* call, so a failure does not leave it locked; the next connection can
\* always be accepted; and a connection whose read succeeded while another
\* has failed is answered and closed.
C37_FailureConfined ==
    /\ [][ \A c \in Conns :
             connections'[c] # connections[c] =>
                \A d \in Conns \ {c} : connections'[d] = connections[d] ]_vars
    /\ [](llm_client # 0 => connections[llm_client].pc = "generate_text")
    /\ [](\A c \in Conns :
            (connections[c].pc = "none"
                /\ \A d \in Conns : d < c => connections[d].pc # "none")
            => \A request \in Requests : ENABLED Connect(c, request))
    /\ \A c \in Conns :
          (connections[c].reads = 1
              /\ \E d \in Conns \ {c} : Failed(connections[d]))
          ~> (connections[c].pc = "closed" /\ connections[c].writes = 1)

\* C37 witness: the read of the first connection failed, and the second
\* connection was answered with a listing.
C37_Witness ==
    /\ connections[1].pc = "closed"
    /\ connections[1].reads = 0
    /\ connections[2].pc = "closed"
    /\ connections[2].received = <<"listing">>

\* ====================================================================
\* Properties of the thinker (SpecThink)
\* ====================================================================

\* The calls of process_time_window that returned Ok, in order.
Processed == SelectSeq(t_windows, LAMBDA w : w.outcome # "error")

\* C38: last_processed_time becomes the window's end when the call returns
\* Ok, with or without events, and is unchanged when it returns Err; every
\* call starts at last_processed_time; the windows processed with success
\* begin at the initial start, each begins where the one before it ended
\* and ends later than it begins, and last_processed_time is the end of
\* the last of them.
C38_WindowsContiguous ==
    /\ [][ Len(t_windows') = Len(t_windows) + 1 =>
            LET w == t_windows'[Len(t_windows')]
            IN  /\ w.start_time = last_processed_time
                /\ w.end_time - w.start_time >= ProcessingInterval
                /\ last_processed_time' = IF w.outcome = "error"
                                          THEN last_processed_time
                                          ELSE w.end_time ]_vars
    /\ [][ Len(t_windows') = Len(t_windows) =>
            last_processed_time' = last_processed_time ]_vars
    /\ [](\A i \in 1..Len(Processed) :
            /\ Processed[i].start_time < Processed[i].end_time
            /\ Processed[i].start_time =
                 IF i = 1 THEN 0 - ProcessingInterval ELSE Processed[i - 1].end_time)
    /\ [](last_processed_time =
            IF Processed = <<>> THEN 0 - ProcessingInterval
            ELSE Processed[Len(Processed)].end_time)

\* C38 witness: a window failed, the next call started at the same instant
\* and succeeded over a longer window, and a window without events followed
\* it.
C38_Witness ==
    /\ Len(t_windows) >= 3
    /\ t_windows[1].outcome = "error"
    /\ t_windows[2].outcome = "summary"
    /\ t_windows[2].start_time = t_windows[1].start_time
    /\ t_windows[2].end_time > t_windows[1].end_time
    /\ t_windows[3].outcome = "no_events"
    /\ t_windows[3].start_time = t_windows[2].end_time

\* ====================================================================
\* Properties of extract_app_name on trimmed requests (SpecParse)
\* ====================================================================

\* C39: a trimmed query gets the app filter that the same query followed
\* by a question mark gets; so "what did I do in chrome" is resolved with
\* the filter "chrome", as "what did I do in chrome?" is.
C39_TrailingAppRecognised ==
    (q_pc # "idle" /\ q_query = trim(q_query \o " ")) =>
        /\ q_app_filter = extract_app_name(q_query \o "?")
        /\ (q_query = "what did I do in chrome" => q_app_filter = Some("chrome"))

====
